---------------------------- MODULE Spec2Model ----------------------------
(***************************************************************************)
(* A model of StockBar's market-data acquisition script                    *)
(* (Stockbar/Resources/get_stock_data.py): the symbol mappings, the        *)
(* provider adapters, the quote cache, the historical fallback loop and    *)
(* main()'s real-time flow.                                                *)
(*                                                                         *)
(* Conventions.                                                            *)
(*  - A ticker is a sequence of one-character strings, so that upper(),    *)
(*    endswith() and replace() are computed as Python computes them.       *)
(*  - A Python value that may be None is Some(v) = <<v>> or None = <<>>.   *)
(*  - A price is a fixed-point number with four decimals: the integer n    *)
(*    stands for n/10000, so that "/ 100.0" is n \div 100 and is exact     *)
(*    on the raw values used here, once and twice.                         *)
(*  - A call that may raise returns Ret(v) or Exc(e).                      *)
(***************************************************************************)
EXTENDS Integers, Sequences, FiniteSets, TLC

VARIABLES
    YFINANCE_AVAILABLE,   \* module flag set by "import yfinance"
    FMP_API_KEY,          \* "" when no key is configured
    TWELVE_DATA_API_KEY,  \* "" when no key is configured
    CONFIG,               \* the configuration file's DATA_SOURCE_PRIORITY entry
    adapter,              \* the adapter a single-adapter run applies
    in_symbol,            \* that run's symbol argument
    in_resp,              \* what the upstream answers in that run
    now,                  \* the wall clock, time.time(), in epoch seconds
    dst,                  \* whether daylight saving time is in force
    tz,                   \* how the time zone object is obtained
    out,                  \* None before the adapter ran, Some(result) after
    args,                 \* the parsed command line: mode, symbols, dates
    pc,                   \* where main() stands
    symbols,              \* main's list of symbols
    idx,                  \* the index of the loop main() stands in
    cache,                \* the in-memory cache dict
    cache_file,           \* the content of ~/.stockbar_cache.json
    results,              \* main's results dict
    symbols_to_fetch,     \* the symbols main found no fresh entry for
    batch_results,        \* the dict fetch_batch builds and returns
    valid_sources,        \* fetch_historical_data's effective priority list
    last_error,           \* fetch_historical_data's last caught exception
    main_historical_data, \* what fetch_historical_data returned to main()
    trace,                \* the events so far: lookups, provider calls, sleeps
    output                \* None until main() printed, then what it printed

adapterVars == <<adapter, in_symbol, in_resp, out>>
clockVars == <<now, dst, tz>>
flowVars == <<args, pc, symbols, idx, cache, cache_file, results, symbols_to_fetch,
              batch_results, valid_sources, last_error, main_historical_data,
              trace, output>>
configVars == <<YFINANCE_AVAILABLE, FMP_API_KEY, TWELVE_DATA_API_KEY, CONFIG>>

-----------------------------------------------------------------------------
(* Python values *)

None == <<>>
Some(v) == <<v>>
IsNone(o) == o = <<>>
IsSome(o) == o # <<>>
Get(o) == o[1]

\* A call's outcome: a returned value, or a raised exception.
Ret(v) == [exc |-> None, val |-> v]
Exc(e) == [exc |-> Some(e), val |-> None]
Raised(r) == IsSome(r.exc)

HTTPError(code) == [type |-> "HTTPError", code |-> code]

-----------------------------------------------------------------------------
(* Strings *)

LowerLetters ==
    <<"a","b","c","d","e","f","g","h","i","j","k","l","m",
      "n","o","p","q","r","s","t","u","v","w","x","y","z">>
UpperLetters ==
    <<"A","B","C","D","E","F","G","H","I","J","K","L","M",
      "N","O","P","Q","R","S","T","U","V","W","X","Y","Z">>

UpperChar(c) ==
    IF \E i \in 1..Len(LowerLetters) : LowerLetters[i] = c
    THEN UpperLetters[CHOOSE i \in 1..Len(LowerLetters) : LowerLetters[i] = c]
    ELSE c

LowerChar(c) ==
    IF \E i \in 1..Len(UpperLetters) : UpperLetters[i] = c
    THEN LowerLetters[CHOOSE i \in 1..Len(UpperLetters) : UpperLetters[i] = c]
    ELSE c

\* str.upper() and str.lower()
Upper(s) == [i \in 1..Len(s) |-> UpperChar(s[i])]
Lower(s) == [i \in 1..Len(s) |-> LowerChar(s[i])]

\* str.endswith(suffix)
EndsWith(s, suffix) ==
    /\ Len(s) >= Len(suffix)
    /\ SubSeq(s, Len(s) - Len(suffix) + 1, Len(s)) = suffix

StartsWithAt(s, i, old) ==
    /\ i + Len(old) - 1 <= Len(s)
    /\ SubSeq(s, i, i + Len(old) - 1) = old

\* str.replace(old, new): every non-overlapping occurrence, left to right.
RECURSIVE ReplaceFrom(_, _, _, _)
ReplaceFrom(s, i, old, new) ==
    IF i > Len(s) THEN <<>>
    ELSE IF StartsWithAt(s, i, old)
         THEN new \o ReplaceFrom(s, i + Len(old), old, new)
         ELSE <<s[i]>> \o ReplaceFrom(s, i + 1, old, new)

Replace(s, old, new) == ReplaceFrom(s, 1, old, new)

DOT_L == <<".", "L">>
DOT_LON == <<".", "L", "O", "N">>
DOT_UK == <<".", "U", "K">>

\* Tickers of the model.
AAPL == <<"A", "A", "P", "L">>
AV_L == <<"A", "V", ".", "L">>
AV_LON == <<"A", "V", ".", "L", "O", "N">>

-----------------------------------------------------------------------------
(* Symbol mappings *)

\* A mapping that would take the ticker as it is spelled.
handle_lse_symbol_as_spelled(symbol) ==
    IF EndsWith(symbol, DOT_L) THEN symbol
    ELSE IF EndsWith(symbol, DOT_LON)
         THEN Replace(symbol, DOT_LON, DOT_L)
         ELSE symbol

handle_lse_symbol(symbol) ==
    IF EndsWith(Upper(symbol), DOT_L) THEN Upper(symbol)
    ELSE IF EndsWith(Upper(symbol), DOT_LON)
         THEN Replace(Upper(symbol), DOT_LON, DOT_L)
         ELSE Upper(symbol)

\* Returns <<ticker, exchange>>, the exchange "LSE" or None.
handle_twelvedata_symbol(symbol) ==
    IF EndsWith(Upper(symbol), DOT_L) \/ EndsWith(Upper(symbol), DOT_LON)
    THEN <<Replace(Replace(Upper(symbol), DOT_L, <<>>), DOT_LON, <<>>), Some("LSE")>>
    ELSE <<Upper(symbol), None>>

handle_stooq_symbol(symbol) ==
    IF EndsWith(Upper(symbol), DOT_L) THEN Replace(Upper(symbol), DOT_L, DOT_UK)
    ELSE IF EndsWith(Upper(symbol), DOT_LON)
         THEN Replace(Upper(symbol), DOT_LON, DOT_UK)
         ELSE Upper(symbol)

-----------------------------------------------------------------------------
(* Prices *)

\* "x /= 100.0" on a fixed-point price.
Div100(x) == x \div 100

\* Div100 applied to an optional price that is not None.
Div100Opt(o) == IF IsSome(o) THEN Some(Div100(Get(o))) ELSE None

-----------------------------------------------------------------------------
(* Clock and time zones *)

SecondsPerDay == 24 * 60 * 60
MinutesPerDay == 24 * 60

\* datetime.now().date(), as a day number.
Today(at) == at \div SecondsPerDay

\* Minute of the day, in UTC, of the epoch second "at".
UtcMinute(at) == (at \div 60) % MinutesPerDay

\* The zone's offset from UTC in minutes.  tzmode is how the zone object was
\* obtained: "zoneinfo" (or pytz) follows the zone's daylight saving rules,
\* "fixed" is the last fallback, timezone(timedelta(hours=0)) for London and
\* timezone(timedelta(hours=-4)) for New York.
UtcOffset(zone, summer, tzmode) ==
    IF zone = "Europe/London"
    THEN (IF tzmode = "fixed" THEN 0 ELSE IF summer THEN 60 ELSE 0)
    ELSE (IF tzmode = "fixed" THEN -240 ELSE IF summer THEN -240 ELSE -300)

\* datetime.now(market_tz), as the minute of the local day.
LocalMinute(zone, at, summer, tzmode) ==
    (UtcMinute(at) + UtcOffset(zone, summer, tzmode) + MinutesPerDay) % MinutesPerDay

-----------------------------------------------------------------------------
(* Market session *)

\* lse_market_state without the "current_hour_market == 8" disjunct: the hour
\* after the pre-market falls through to CLOSED.
lse_market_state_without_eight(current_hour_market, current_minute_market) ==
    IF current_hour_market >= 7 /\ current_hour_market < 8
    THEN "PRE"
    ELSE IF \/ (current_hour_market >= 9 /\ current_hour_market < 16)
            \/ (current_hour_market = 16 /\ current_minute_market < 30)
    THEN "REGULAR"
    ELSE IF \/ (current_hour_market = 16 /\ current_minute_market >= 30)
            \/ (current_hour_market = 17 /\ current_minute_market < 30)
    THEN "POST"
    ELSE "CLOSED"

lse_market_state(current_hour_market, current_minute_market) ==
    IF current_hour_market >= 7 /\ current_hour_market < 8
    THEN "PRE"
    ELSE IF \/ current_hour_market = 8
            \/ (current_hour_market >= 9 /\ current_hour_market < 16)
            \/ (current_hour_market = 16 /\ current_minute_market < 30)
    THEN "REGULAR"
    ELSE IF \/ (current_hour_market = 16 /\ current_minute_market >= 30)
            \/ (current_hour_market = 17 /\ current_minute_market < 30)
    THEN "POST"
    ELSE "CLOSED"

\* us_market_state with the opening bell's minute compared with <= instead of <.
us_market_state_late_open(current_hour_market, current_minute_market) ==
    IF \/ (current_hour_market >= 4 /\ current_hour_market < 9)
       \/ (current_hour_market = 9 /\ current_minute_market <= 30)
    THEN "PRE"
    ELSE IF \/ (current_hour_market = 9 /\ current_minute_market > 30)
            \/ (current_hour_market >= 10 /\ current_hour_market < 16)
    THEN "REGULAR"
    ELSE IF current_hour_market >= 16 /\ current_hour_market < 20
    THEN "POST"
    ELSE "CLOSED"

us_market_state(current_hour_market, current_minute_market) ==
    IF \/ (current_hour_market >= 4 /\ current_hour_market < 9)
       \/ (current_hour_market = 9 /\ current_minute_market < 30)
    THEN "PRE"
    ELSE IF \/ (current_hour_market = 9 /\ current_minute_market >= 30)
            \/ (current_hour_market >= 10 /\ current_hour_market < 16)
    THEN "REGULAR"
    ELSE IF current_hour_market >= 16 /\ current_hour_market < 20
    THEN "POST"
    ELSE "CLOSED"

\* session_price taking the pre-market price in every session where it is present.
session_price_always_pre(market_state, current_price, pre_market_price, post_market_price) ==
    IF IsSome(pre_market_price) THEN Get(pre_market_price)
    ELSE IF market_state = "POST" /\ IsSome(post_market_price) THEN Get(post_market_price)
    ELSE current_price

\* The price the quote carries: the extended-hours price replaces the regular
\* one only in its own session and only when it is present.
session_price(market_state, current_price, pre_market_price, post_market_price) ==
    IF market_state = "PRE" /\ IsSome(pre_market_price) THEN Get(pre_market_price)
    ELSE IF market_state = "POST" /\ IsSome(post_market_price) THEN Get(post_market_price)
    ELSE current_price

-----------------------------------------------------------------------------
(* yfinance real-time quote *)

\* DataFrame.sort_index(): a stable sort by date.
RECURSIVE InsertByDate(_, _)
InsertByDate(sorted, bar) ==
    IF sorted = <<>> THEN <<bar>>
    ELSE IF sorted[Len(sorted)].date <= bar.date THEN Append(sorted, bar)
    ELSE Append(InsertByDate(SubSeq(sorted, 1, Len(sorted) - 1), bar), sorted[Len(sorted)])

RECURSIVE SortByDate(_)
SortByDate(bars) ==
    IF bars = <<>> THEN <<>>
    ELSE InsertByDate(SortByDate(SubSeq(bars, 1, Len(bars) - 1)), bars[Len(bars)])

\* Step 1: the previous close, from the daily bars (not empty).
yf_previous_close(daily_hist, at) ==
    LET complete_days == SelectSeq(daily_hist, LAMBDA b : b.date < Today(at))
    IN  IF complete_days # <<>>
        THEN complete_days[Len(complete_days)].Close
        ELSE daily_hist[Len(daily_hist)].Close

\* A field of ticker.info, None when the key is absent, its value is None or
\* reading ticker.info raised.
InfoField(r, name) == IF IsSome(r.info) THEN Get(r.info)[name] ELSE None

\* Steps 2 to 5: the regular market price.  The result is None only when the
\* intraday history call raises, which the function's outer handler catches.
yf_regular_market_price(r, previous_close) ==
    IF IsSome(InfoField(r, "regularMarketPrice"))
    THEN InfoField(r, "regularMarketPrice")
    ELSE IF IsSome(r.fast) THEN r.fast
    ELSE IF IsNone(r.intraday) THEN None
    ELSE IF Get(r.intraday) # <<>>
         THEN Some(Get(r.intraday)[Len(Get(r.intraday))])
         ELSE Some(previous_close)

\* Step 6: the market state at the exchange's local time.
yf_market_state(symbol, at, summer, tzmode) ==
    IF EndsWith(Upper(symbol), DOT_L)
    THEN LET t == LocalMinute("Europe/London", at, summer, tzmode)
         IN  lse_market_state(t \div 60, t % 60)
    ELSE LET t == LocalMinute("America/New_York", at, summer, tzmode)
         IN  us_market_state(t \div 60, t % 60)

\* r is what yfinance answers for the symbol:
\*   daily    None when ticker.history raises, else Some(bars), a bar being
\*            [date, Open, Close] with date a day number;
\*   info     None when ticker.info raises, else Some(record of optional fields);
\*   fast     None when fast_info raises, else Some(last_price);
\*   intraday None when the 5m history raises, else Some(closes).
\* tzmode = "notfound" is ZoneInfo(...) raising for lack of zone data.
fetch_real_time_quote_yfinance(symbol, r, at, summer, tzmode) ==
    IF ~YFINANCE_AVAILABLE THEN None
    ELSE IF IsNone(r.daily) THEN None
    ELSE IF Get(r.daily) = <<>> THEN None
    ELSE
      LET daily_hist == SortByDate(Get(r.daily))
          previous_close == yf_previous_close(daily_hist, at)
          regular_market_time == InfoField(r, "regularMarketTime")
          pre_market_price == InfoField(r, "preMarketPrice")
          post_market_price == InfoField(r, "postMarketPrice")
          regular == yf_regular_market_price(r, previous_close)
      IN
      IF IsNone(regular) THEN None
      ELSE IF tzmode = "notfound" THEN None
      ELSE
        LET regular_market_price == Get(regular)
            market_state == yf_market_state(symbol, at, summer, tzmode)
            current_price == session_price(market_state, regular_market_price,
                                           pre_market_price, post_market_price)
            lse == EndsWith(Upper(symbol), DOT_L)
        IN
        Some([symbol |-> symbol,
              price |-> IF lse THEN Div100(current_price) ELSE current_price,
              regularMarketPrice |->
                  IF lse THEN Div100(regular_market_price) ELSE regular_market_price,
              previousClose |-> IF lse THEN Div100(previous_close) ELSE previous_close,
              preMarketPrice |->
                  IF lse THEN Div100Opt(pre_market_price) ELSE pre_market_price,
              postMarketPrice |->
                  IF lse THEN Div100Opt(post_market_price) ELSE post_market_price,
              preMarketTime |->
                  IF market_state = "PRE" /\ IsSome(pre_market_price)
                  THEN Some(at) ELSE None,
              postMarketTime |->
                  IF market_state = "POST" /\ IsSome(post_market_price)
                  THEN Some(at) ELSE None,
              marketState |-> market_state,
              timestamp |->
                  IF IsSome(regular_market_time) THEN Get(regular_market_time) ELSE at])

-----------------------------------------------------------------------------
(* HTTP transport *)

\* up is what the upstream does with one GET:
\*   [kind |-> "ok", body |-> b]      a 2xx answer with the decoded body b,
\*   [kind |-> "http", code |-> c]    a 4xx/5xx answer (raise_for_status raises),
\*   [kind |-> "conn"]                a connection-level error,
\*   [kind |-> "timeout"]             the 15 s timeout.
\* The result is Ret(Some(body)), Ret(None) or Exc(HTTPError).
make_request(up) ==
    IF up.kind = "ok" THEN Ret(Some(up.body))
    ELSE IF up.kind = "http" THEN Exc(HTTPError(up.code))
    ELSE Ret(None)

\* make_fmp_request without the test of the key.
make_fmp_request_keyless(up) == make_request(up)

make_fmp_request(up) ==
    IF FMP_API_KEY = "" THEN Ret(None) ELSE make_request(up)

-----------------------------------------------------------------------------
(* FMP real-time quote *)

\* dict.get(key, default) on a record of optional fields.
GetOr(o, default) == IF IsSome(o) THEN Get(o) ELSE default

\* The body is the list FMP's /quote answers with, each item a record of the
\* optional fields price, previousClose and timestamp.
fetch_real_time_quote_fmp(symbol, up, at) ==
    LET api_symbol == handle_lse_symbol(symbol)
        resp == make_fmp_request(up)
    IN
    IF Raised(resp) THEN resp
    ELSE IF IsNone(resp.val) \/ Get(resp.val) = <<>> THEN Ret(None)
    ELSE
      LET quote == Get(resp.val)[1]
          current_price == GetOr(quote.price, 0)
          previous_close == GetOr(quote.previousClose, 0)
          timestamp == GetOr(quote.timestamp, at)
          lse == EndsWith(api_symbol, DOT_L)
      IN
      IF current_price <= 0 \/ previous_close <= 0 THEN Ret(None)
      ELSE Ret(Some([symbol |-> symbol,
                     price |-> IF lse THEN Div100(current_price) ELSE current_price,
                     previousClose |->
                         IF lse THEN Div100(previous_close) ELSE previous_close,
                     timestamp |-> timestamp]))

-----------------------------------------------------------------------------
(* Historical adapters *)

\* An upstream row is [date, open, close]: date a day number (the timestamp
\* of the point), open optional, close the raw closing price.

Point(timestamp, symbol, price, previousClose) ==
    [timestamp |-> timestamp, symbol |-> symbol,
     price |-> price, previousClose |-> previousClose]

\* The "Fix previousClose" pass of the Twelve Data and Stooq adapters.
fix_previous_close(historical_data) ==
    [i \in 1..Len(historical_data) |->
        [historical_data[i] EXCEPT !.previousClose =
            IF i > 1 THEN historical_data[i - 1].price ELSE historical_data[i].price]]

\* list.reverse()
Reverse(rows) == [i \in 1..Len(rows) |-> rows[Len(rows) + 1 - i]]

\* list.sort(key=lambda x: x['timestamp']): a stable sort.
RECURSIVE InsertByTimestamp(_, _)
InsertByTimestamp(sorted, p) ==
    IF sorted = <<>> THEN <<p>>
    ELSE IF sorted[Len(sorted)].timestamp <= p.timestamp THEN Append(sorted, p)
    ELSE Append(InsertByTimestamp(SubSeq(sorted, 1, Len(sorted) - 1), p),
                sorted[Len(sorted)])

RECURSIVE SortByTimestamp(_)
SortByTimestamp(points) ==
    IF points = <<>> THEN <<>>
    ELSE InsertByTimestamp(SortByTimestamp(SubSeq(points, 1, Len(points) - 1)),
                           points[Len(points)])

\* The body is [code, status, values]: code optional, values optional rows.
fetch_historical_data_twelvedata(symbol, up) ==
    IF TWELVE_DATA_API_KEY = "" THEN Ret(None)
    ELSE
      LET resp == make_request(up) IN
      IF Raised(resp) THEN Ret(None)
      ELSE IF IsNone(resp.val) THEN Ret(None)
      ELSE
        LET data == Get(resp.val) IN
        IF IsSome(data.code) /\ Get(data.code) # 200 THEN Ret(None)
        ELSE IF data.status = "error" THEN Ret(None)
        ELSE IF IsNone(data.values) THEN Ret(None)
        ELSE
          LET values == Get(data.values)
              historical_data ==
                  [i \in 1..Len(values) |->
                      Point(values[i].date, symbol, values[i].close, 0)]
          IN  Ret(Some(fix_previous_close(historical_data)))

\* The body is [nodata, rows]: nodata when the text holds "No data", rows the
\* CSV's rows in the order of the file.
fetch_historical_data_stooq(symbol, up) ==
    LET resp == make_request(up) IN
    IF Raised(resp) THEN Ret(None)
    ELSE IF IsNone(resp.val) THEN Ret(None)
    ELSE IF Get(resp.val).nodata \/ Get(resp.val).rows = <<>> THEN Ret(None)
    ELSE
      LET rows == Reverse(Get(resp.val).rows)
          lse == EndsWith(Upper(symbol), DOT_L) \/ EndsWith(Upper(symbol), DOT_LON)
          historical_data ==
              [i \in 1..Len(rows) |->
                  Point(rows[i].date, symbol,
                        IF lse THEN Div100(rows[i].close) ELSE rows[i].close, 0)]
      IN  Ret(Some(fix_previous_close(historical_data)))

\* One pass of the loop over hist.iterrows(): the points of rows[1..n].
yf_points(symbol, rows) ==
    LET lse == EndsWith(Upper(symbol), DOT_L) IN
    [i \in 1..Len(rows) |->
        LET close_price_raw == rows[i].close
            previous_close_raw ==
                IF i > 1 THEN rows[i - 1].close ELSE Get(rows[i].open)
        IN  Point(rows[i].date, symbol,
                  IF lse THEN Div100(close_price_raw) ELSE close_price_raw,
                  IF lse THEN Div100(previous_close_raw) ELSE previous_close_raw)]

\* A loop that would try a third time.
max_retries_three == 2 + 1

max_retries == 2

\* attempts is what ticker.history answers at the first and at the second
\* attempt: None when it raises, else Some(rows).  History is what it
\* answers at the given attempt; asked again after the last answer listed it
\* answers the same.
History(attempts, attempt) ==
    IF attempt <= Len(attempts) THEN attempts[attempt] ELSE attempts[Len(attempts)]

\* The number of calls of ticker.history the loop makes from the given
\* attempt on.
RECURSIVE yf_history_calls(_, _)
yf_history_calls(attempts, attempt) ==
    IF attempt > max_retries THEN 0
    ELSE IF IsNone(History(attempts, attempt)) \/ Get(History(attempts, attempt)) = <<>>
         THEN 1 + yf_history_calls(attempts, attempt + 1)
         ELSE 1

RECURSIVE yf_historical_attempt(_, _, _)
yf_historical_attempt(symbol, attempts, attempt) ==
    IF attempt > max_retries THEN Ret(None)
    ELSE IF IsNone(History(attempts, attempt)) \/ Get(History(attempts, attempt)) = <<>>
         THEN yf_historical_attempt(symbol, attempts, attempt + 1)
         ELSE Ret(Some(yf_points(symbol, Get(History(attempts, attempt)))))

fetch_historical_data_yfinance(symbol, attempts) ==
    IF ~YFINANCE_AVAILABLE THEN Ret(None)
    ELSE yf_historical_attempt(symbol, attempts, 1)

\* The body is [historical]: optional rows.
fetch_historical_data_fmp(symbol, up) ==
    LET api_symbol == handle_lse_symbol(symbol)
        resp == make_fmp_request(up)
    IN
    IF Raised(resp) THEN resp
    ELSE IF IsNone(resp.val) \/ IsNone(Get(resp.val).historical) THEN Ret(Some(<<>>))
    ELSE
      LET rows == Get(Get(resp.val).historical)
          lse == EndsWith(api_symbol, DOT_L)
          historical_data ==
              [i \in 1..Len(rows) |->
                  LET close_price == rows[i].close
                      previous_close == GetOr(rows[i].open, close_price)
                  IN  Point(rows[i].date, symbol,
                            IF lse THEN Div100(close_price) ELSE close_price,
                            IF lse THEN Div100(previous_close) ELSE previous_close)]
      IN  Ret(Some(SortByTimestamp(historical_data)))

-----------------------------------------------------------------------------
(* OHLC candles *)

\* A cell of the DataFrame that holds no number, on which int(row['Volume'])
\* raises ValueError; a volume is a count, NaN is written as the integer
\* below every count.
NaN == -1
IsNaN(v) == v = NaN

\* The candles of the rows; hist is None when ticker.history raises.
fetch_ohlc_data_yfinance(symbol, hist) ==
    IF ~YFINANCE_AVAILABLE THEN None
    ELSE IF IsNone(hist) THEN None
    ELSE IF Get(hist) = <<>> THEN None
    ELSE IF \E k \in 1..Len(Get(hist)) : IsNaN(Get(hist)[k].Volume) THEN None
    ELSE
      LET rows == Get(hist)
          lse == EndsWith(Upper(symbol), DOT_L)
      IN  Some([k \in 1..Len(rows) |->
                  [timestamp |-> rows[k].date,
                   symbol |-> symbol,
                   open |-> IF lse THEN Div100(rows[k].Open) ELSE rows[k].Open,
                   high |-> IF lse THEN Div100(rows[k].High) ELSE rows[k].High,
                   low |-> IF lse THEN Div100(rows[k].Low) ELSE rows[k].Low,
                   close |-> IF lse THEN Div100(rows[k].Close) ELSE rows[k].Close,
                   volume |-> rows[k].Volume]])

fetch_ohlc_data(symbol, hist) ==
    IF YFINANCE_AVAILABLE THEN fetch_ohlc_data_yfinance(symbol, hist) ELSE None

\* get_ohlc_data.py, the standalone OHLC script. index.isoformat()
isoformat(date) == [iso |-> date]

\* The dict the script prints when it has no candles.
ohlc_failure(symbol, period, interval, error) ==
    [success |-> FALSE, symbol |-> symbol, period |-> period,
     interval |-> interval, data |-> <<>>, error |-> Some(error)]

\* fetch_ohlc_data of get_ohlc_data.py returning, when a row raises, the
\* candles appended before it.
get_ohlc_data_fetch_ohlc_data_partial(symbol, period, interval, hist) ==
    IF IsNone(hist) THEN ohlc_failure(symbol, period, interval, "exception")
    ELSE IF Get(hist) = <<>>
    THEN ohlc_failure(symbol, period, interval, "No data available")
    ELSE
      LET rows == Get(hist)
          good == {n \in 0..Len(rows) : \A k \in 1..n : ~IsNaN(rows[k].Volume)}
          done == CHOOSE n \in good : \A m \in good : m <= n
      IN
      [success |-> done = Len(rows),
       symbol |-> symbol,
       period |-> period,
       interval |-> interval,
       data |-> [k \in 1..done |->
                   [timestamp |-> isoformat(rows[k].date),
                    open |-> rows[k].Open,
                    high |-> rows[k].High,
                    low |-> rows[k].Low,
                    close |-> rows[k].Close,
                    volume |-> rows[k].Volume]],
       error |-> IF done = Len(rows) THEN None ELSE Some("exception")]

\* fetch_ohlc_data of get_ohlc_data.py; hist is what ticker.history answers
\* for the period and the interval.
get_ohlc_data_fetch_ohlc_data(symbol, period, interval, hist) ==
    IF IsNone(hist) THEN ohlc_failure(symbol, period, interval, "exception")
    ELSE IF Get(hist) = <<>>
    THEN ohlc_failure(symbol, period, interval, "No data available")
    ELSE IF \E k \in 1..Len(Get(hist)) : IsNaN(Get(hist)[k].Volume)
    THEN ohlc_failure(symbol, period, interval, "exception")
    ELSE
      LET rows == Get(hist) IN
      [success |-> TRUE,
       symbol |-> symbol,
       period |-> period,
       interval |-> interval,
       data |-> [k \in 1..Len(rows) |->
                   [timestamp |-> isoformat(rows[k].date),
                    open |-> rows[k].Open,
                    high |-> rows[k].High,
                    low |-> rows[k].Low,
                    close |-> rows[k].Close,
                    volume |-> rows[k].Volume]],
       error |-> None]

\* sys.argv[1:] of get_ohlc_data.py: the symbol, the period and the interval,
\* each None when the command line is too short to hold it.
Argv(symbol, period, interval) ==
    [symbol |-> symbol, period |-> period, interval |-> interval]

UNKNOWN == <<"U", "N", "K", "N", "O", "W", "N">>

\* What get_ohlc_data.py prints: the module's exit when yfinance is missing,
\* main()'s usage error, or the result of fetch_ohlc_data.
get_ohlc_data_main(argv, hist) ==
    IF ~YFINANCE_AVAILABLE
    THEN ohlc_failure(GetOr(argv.symbol, UNKNOWN), GetOr(argv.period, "1mo"),
                      GetOr(argv.interval, "1d"), "yfinance library not installed")
    ELSE IF IsNone(argv.symbol)
    THEN ohlc_failure(UNKNOWN, "1mo", "1d", "Usage")
    ELSE
      LET symbol == Upper(Get(argv.symbol))
          period == GetOr(argv.period, "1mo")
          interval == IF period = "1d"
                         /\ GetOr(argv.interval, "1d") \in {"1d", "1wk", "1mo"}
                      THEN "5m" ELSE GetOr(argv.interval, "1d")
      IN  get_ohlc_data_fetch_ohlc_data(symbol, period, interval, hist)

-----------------------------------------------------------------------------
(* Inputs of the single-adapter runs *)

MaxRows == 2
MaxDate == 3

QuoteSymbols == {AAPL, AV_L, AV_LON}
HistSymbols == {AAPL, AV_L, AV_LON}
OhlcSymbols == {AAPL, AV_L, AV_LON, Lower(AV_L)}

\* Raw provider prices, in the fixed-point representation.
Price(units) == units * 10000
RawRegular == Price(100)
RawPre == Price(101)
RawPost == Price(99)

\* What ticker.history answers to an OHLC request: None when it raises, else
\* the rows [date, Open, High, Low, Close, Volume].
OhlcHists ==
    {None, Some(<<>>),
     Some(<<[date |-> 1, Open |-> Price(100), High |-> Price(103),
             Low |-> Price(99), Close |-> Price(102), Volume |-> 1000]>>)}

\* The same and an answer of two rows, for the OHLC functions on their own.
OhlcAnswers ==
    OhlcHists
    \cup {Some(<<[date |-> 1, Open |-> Price(100), High |-> Price(103),
                  Low |-> Price(99), Close |-> Price(102), Volume |-> 1000],
                 [date |-> 2, Open |-> Price(102), High |-> Price(104),
                  Low |-> Price(101), Close |-> Price(103), Volume |-> 2500]>>)}

RawPrior == Price(98)
RawToday == Price(97)
RawFast == Price(96)
RawIntraday == Price(95)
RawCloses == {Price(100), Price(102)}
RawOpens == {None, Some(Price(101))}

SeqsUpTo(S, n) == UNION {[1..k -> S] : k \in 0..n}

Rows == [date : 1..MaxDate, open : RawOpens, close : RawCloses]
RowSeqs == SeqsUpTo(Rows, MaxRows)
\* pandas rows always carry Open
YFRowSeqs == {rs \in RowSeqs : \A i \in 1..Len(rs) : IsSome(rs[i].open)}

PriorBar == [date |-> -1, Open |-> RawPrior - Price(1), Close |-> RawPrior]
TodayBar == [date |-> 0, Open |-> RawToday - Price(1), Close |-> RawToday]

Info(time, pre, post, regular) ==
    [regularMarketTime |-> time, preMarketPrice |-> pre,
     postMarketPrice |-> post, regularMarketPrice |-> regular]

\* Every minute of the day, each extended-hours price present or absent.
SweepNows == {60 * m : m \in 0..(MinutesPerDay - 1)}
SweepResponses ==
    {[daily |-> Some(<<PriorBar>>),
      info |-> Some(Info(None, pre, post, Some(RawRegular))),
      fast |-> Some(RawFast),
      intraday |-> Some(<<>>)] :
        pre \in {None, Some(RawPre)}, post \in {None, Some(RawPost)}}

\* A few instants (UTC 08:30, 13:29, 13:30, 21:00), every shape of answer.
EdgeNows == {60 * (8 * 60 + 30), 60 * (13 * 60 + 29), 60 * (13 * 60 + 30), 60 * 21 * 60}
YFQuoteResponses ==
    [daily : {None, Some(<<>>), Some(<<PriorBar>>), Some(<<TodayBar>>),
              Some(<<TodayBar, PriorBar>>)},
     info : {None,
             Some(Info(None, None, None, None)),
             Some(Info(None, None, None, Some(RawRegular))),
             Some(Info(Some(7), Some(RawPre), Some(RawPost), Some(RawRegular)))},
     fast : {None, Some(RawFast)},
     intraday : {None, Some(<<>>), Some(<<RawIntraday>>)}]

Failures == {[kind |-> "http", code |-> 401], [kind |-> "http", code |-> 403],
             [kind |-> "http", code |-> 429], [kind |-> "http", code |-> 500],
             [kind |-> "conn"], [kind |-> "timeout"]}

Ok(body) == [kind |-> "ok", body |-> body]

FmpQuoteItems ==
    [price : {None, Some(0), Some(RawRegular)},
     previousClose : {None, Some(RawPrior)},
     timestamp : {None, Some(7)}]
FmpQuoteUpstreams ==
    Failures \cup {Ok(<<>>)} \cup {Ok(<<q>>) : q \in FmpQuoteItems}

FmpHistUpstreams ==
    Failures \cup {Ok([historical |-> None])}
             \cup {Ok([historical |-> Some(rs)]) : rs \in RowSeqs}

TwelveUpstreams ==
    Failures \cup {Ok([code |-> Some(400), status |-> "error", values |-> None]),
                   Ok([code |-> None, status |-> "ok", values |-> None])}
             \cup {Ok([code |-> None, status |-> "ok", values |-> Some(rs)]) :
                       rs \in RowSeqs}

StooqUpstreams ==
    Failures \cup {Ok([nodata |-> TRUE, rows |-> <<>>])}
             \cup {Ok([nodata |-> FALSE, rows |-> rs]) : rs \in RowSeqs}

YFHistAttempts ==
    {<<Some(rs), None>> : rs \in YFRowSeqs}
    \cup {<<a, Some(rs)>> : a \in {None, Some(<<>>)}, rs \in YFRowSeqs}
    \cup {<<None, None>>}

-----------------------------------------------------------------------------
(* Single-adapter runs: one adapter applied once to one upstream answer *)

\* CONFIG when the configuration file is absent or unreadable (get_config).
NoConfig == [DATA_SOURCE_PRIORITY |-> None]

\* main() does not run in a single-adapter run.
FlowIdle ==
    /\ args = None /\ pc = "idle" /\ symbols = <<>> /\ idx = 0
    /\ cache = <<>> /\ cache_file = <<>> /\ results = <<>>
    /\ symbols_to_fetch = <<>> /\ batch_results = <<>>
    /\ valid_sources = <<>> /\ last_error = None /\ main_historical_data = None
    /\ trace = <<>> /\ output = None

AdapterInit ==
    /\ out = None
    /\ FlowIdle
    /\ \/ /\ adapter = "quote_yfinance"
          /\ YFINANCE_AVAILABLE = TRUE /\ FMP_API_KEY = "key"
          /\ TWELVE_DATA_API_KEY = "key" /\ CONFIG = NoConfig
          /\ in_symbol \in QuoteSymbols
          /\ now \in SweepNows
          /\ dst \in BOOLEAN
          /\ tz = "zoneinfo"
          /\ in_resp \in SweepResponses
       \/ /\ adapter = "quote_yfinance"
          /\ YFINANCE_AVAILABLE \in BOOLEAN /\ FMP_API_KEY = "key"
          /\ TWELVE_DATA_API_KEY = "key" /\ CONFIG = NoConfig
          /\ in_symbol \in QuoteSymbols
          /\ now \in EdgeNows
          /\ dst \in BOOLEAN
          /\ tz \in {"zoneinfo", "fixed", "notfound"}
          /\ in_resp \in YFQuoteResponses
       \/ /\ adapter = "quote_fmp"
          /\ YFINANCE_AVAILABLE = TRUE /\ FMP_API_KEY \in {"", "key"}
          /\ TWELVE_DATA_API_KEY = "key" /\ CONFIG = NoConfig
          /\ in_symbol \in QuoteSymbols
          /\ now \in EdgeNows
          /\ dst = FALSE /\ tz = "zoneinfo"
          /\ in_resp \in FmpQuoteUpstreams
       \/ /\ adapter = "hist_yfinance"
          /\ YFINANCE_AVAILABLE \in BOOLEAN /\ FMP_API_KEY = "key"
          /\ TWELVE_DATA_API_KEY = "key" /\ CONFIG = NoConfig
          /\ in_symbol \in HistSymbols
          /\ now = 0 /\ dst = FALSE /\ tz = "zoneinfo"
          /\ in_resp \in YFHistAttempts
       \/ /\ adapter = "hist_fmp"
          /\ YFINANCE_AVAILABLE = TRUE /\ FMP_API_KEY \in {"", "key"}
          /\ TWELVE_DATA_API_KEY = "key" /\ CONFIG = NoConfig
          /\ in_symbol \in HistSymbols
          /\ now = 0 /\ dst = FALSE /\ tz = "zoneinfo"
          /\ in_resp \in FmpHistUpstreams
       \/ /\ adapter = "hist_twelvedata"
          /\ YFINANCE_AVAILABLE = TRUE /\ FMP_API_KEY = "key"
          /\ TWELVE_DATA_API_KEY \in {"", "key"} /\ CONFIG = NoConfig
          /\ in_symbol \in HistSymbols
          /\ now = 0 /\ dst = FALSE /\ tz = "zoneinfo"
          /\ in_resp \in TwelveUpstreams
       \/ /\ adapter = "hist_stooq"
          /\ YFINANCE_AVAILABLE = TRUE /\ FMP_API_KEY = "key"
          /\ TWELVE_DATA_API_KEY = "key" /\ CONFIG = NoConfig
          /\ in_symbol \in HistSymbols
          /\ now = 0 /\ dst = FALSE /\ tz = "zoneinfo"
          /\ in_resp \in StooqUpstreams
       \/ /\ adapter \in {"ohlc_yfinance", "ohlc_script"}
          /\ YFINANCE_AVAILABLE \in BOOLEAN /\ FMP_API_KEY = "key"
          /\ TWELVE_DATA_API_KEY = "key" /\ CONFIG = NoConfig
          /\ in_symbol \in OhlcSymbols
          /\ now = 0 /\ dst = FALSE /\ tz = "zoneinfo"
          /\ in_resp \in OhlcAnswers

Apply(name, result) ==
    /\ adapter = name
    /\ out = None
    /\ out' = Some(result)
    /\ UNCHANGED <<adapter, in_symbol, in_resp>>
    /\ UNCHANGED <<configVars, clockVars, flowVars>>

ApplyQuoteYfinance ==
    Apply("quote_yfinance",
          Ret(fetch_real_time_quote_yfinance(in_symbol, in_resp, now, dst, tz)))

ApplyQuoteFmp ==
    Apply("quote_fmp", fetch_real_time_quote_fmp(in_symbol, in_resp, now))

ApplyHistYfinance ==
    Apply("hist_yfinance", fetch_historical_data_yfinance(in_symbol, in_resp))

ApplyHistFmp ==
    Apply("hist_fmp", fetch_historical_data_fmp(in_symbol, in_resp))

ApplyHistTwelvedata ==
    Apply("hist_twelvedata", fetch_historical_data_twelvedata(in_symbol, in_resp))

ApplyHistStooq ==
    Apply("hist_stooq", fetch_historical_data_stooq(in_symbol, in_resp))

\* python get_stock_data.py --ohlc SYMBOL: fetch_ohlc_data for the symbol.
ApplyOhlcYfinance ==
    Apply("ohlc_yfinance", Ret(fetch_ohlc_data(in_symbol, in_resp)))

\* python get_ohlc_data.py SYMBOL
ApplyOhlcScript ==
    Apply("ohlc_script",
          Ret(Some(get_ohlc_data_main(Argv(Some(in_symbol), None, None), in_resp))))

AdapterNext ==
    \/ ApplyQuoteYfinance
    \/ ApplyQuoteFmp
    \/ ApplyHistYfinance
    \/ ApplyHistFmp
    \/ ApplyHistTwelvedata
    \/ ApplyHistStooq
    \/ ApplyOhlcYfinance
    \/ ApplyOhlcScript

vars == <<configVars, clockVars, adapterVars, flowVars>>

SpecAdapter == AdapterInit /\ [][AdapterNext]_vars

-----------------------------------------------------------------------------
(* Properties of the adapters, checked under SpecAdapter *)

\* The adapter ran and returned a value that is not None.
Returned(name) ==
    /\ adapter = name
    /\ IsSome(out)
    /\ ~Raised(Get(out))
    /\ IsSome(Get(out).val)

\* That value: a quote, or a list of points.
Result == Get(Get(out).val)

IsLseSymbol(symbol) ==
    EndsWith(Upper(symbol), DOT_L) \/ EndsWith(Upper(symbol), DOT_LON)

Between(lo, t, hi) == lo <= t /\ t < hi

\* The session of the US calendar at minute t of the New York day.
UsSession(t) ==
    IF Between(4 * 60, t, 9 * 60 + 30) THEN "PRE"
    ELSE IF Between(9 * 60 + 30, t, 16 * 60) THEN "REGULAR"
    ELSE IF Between(16 * 60, t, 20 * 60) THEN "POST"
    ELSE "CLOSED"

\* The session of the LSE calendar at minute t of the London day.
LseSession(t) ==
    IF Between(7 * 60, t, 8 * 60) THEN "PRE"
    ELSE IF Between(8 * 60, t, 16 * 60 + 30) THEN "REGULAR"
    ELSE IF Between(16 * 60 + 30, t, 17 * 60 + 30) THEN "POST"
    ELSE "CLOSED"

NewYorkMinute == LocalMinute("America/New_York", now, dst, tz)
LondonMinute == LocalMinute("Europe/London", now, dst, tz)

\* C8: for a US symbol the yfinance quote's marketState is PRE in
\* [04:00, 09:30) New York time, REGULAR in [09:30, 16:00), POST in
\* [16:00, 20:00) and CLOSED otherwise, each boundary minute belonging to the
\* later state.
C8_UsSessionBoundaries ==
    (Returned("quote_yfinance") /\ ~IsLseSymbol(in_symbol))
        => Result.marketState = UsSession(NewYorkMinute)

\* A US quote taken at 09:30 New York time, in the REGULAR session.
C8_Witness ==
    /\ Returned("quote_yfinance")
    /\ in_symbol = AAPL
    /\ NewYorkMinute = 9 * 60 + 30
    /\ Result.marketState = "REGULAR"

\* C9: for every symbol with a trailing .L or .LON the yfinance quote's
\* marketState is PRE in [07:00, 08:00) London time, REGULAR in [08:00, 16:30),
\* POST in [16:30, 17:30) and CLOSED otherwise.
C9_LseSessionBoundaries ==
    (Returned("quote_yfinance") /\ IsLseSymbol(in_symbol))
        => Result.marketState = LseSession(LondonMinute)

\* C10: the quote's price is the pre-market price in PRE when one is present,
\* the post-market price in POST when one is present, and the regular market
\* price in every other case; and a quote fails only for a cause that has
\* nothing to do with the extended-hours prices.
C10_SessionPriceSelection ==
    /\ Returned("quote_yfinance") =>
         Result.price =
            IF Result.marketState = "PRE" /\ IsSome(Result.preMarketPrice)
            THEN Get(Result.preMarketPrice)
            ELSE IF Result.marketState = "POST" /\ IsSome(Result.postMarketPrice)
            THEN Get(Result.postMarketPrice)
            ELSE Result.regularMarketPrice
    /\ (adapter = "quote_yfinance" /\ IsSome(out) /\ IsNone(Get(out).val)) =>
         \/ ~YFINANCE_AVAILABLE
         \/ IsNone(in_resp.daily)
         \/ Get(in_resp.daily) = <<>>
         \/ tz = "notfound"
         \/ /\ IsNone(InfoField(in_resp, "regularMarketPrice"))
            /\ IsNone(in_resp.fast)
            /\ IsNone(in_resp.intraday)

\* A quote taken in the PRE session with no pre-market price, carrying the
\* regular price, another price being present.
C10_Witness ==
    /\ Returned("quote_yfinance")
    /\ Result.marketState = "PRE"
    /\ IsNone(Result.preMarketPrice)
    /\ IsSome(Result.postMarketPrice)
    /\ Result.price = Result.regularMarketPrice
    /\ Result.price # Get(Result.postMarketPrice)

\* The daily bars yfinance answered with, and those dated before today.
DailyBars == {Get(in_resp.daily)[i] : i \in 1..Len(Get(in_resp.daily))}
PriorBars == {b \in DailyBars : b.date < Today(now)}
Latest(bars) == CHOOSE b \in bars : \A c \in bars : c.date <= b.date

\* A raw price as the quote may carry it: as it is, or in major units.
AsCarried(raw) == {raw, Div100(raw)}

\* C21: the quote's previousClose is the close of the latest daily bar dated
\* before today whenever there is one, never that of a same-day bar; when the
\* answer holds only today's bar it is that bar's opening price.
C21_PreviousCloseFromPriorSession ==
    Returned("quote_yfinance") =>
        IF PriorBars # {}
        THEN Result.previousClose \in AsCarried(Latest(PriorBars).Close)
        ELSE Result.previousClose \in AsCarried(Latest(DailyBars).Open)

\* The yfinance quote adapter ran on an answer from which it builds a quote
\* when the exchange's zone resolves.
UsableQuoteAnswer ==
    /\ adapter = "quote_yfinance"
    /\ IsSome(out)
    /\ IsSome(fetch_real_time_quote_yfinance(in_symbol, in_resp, now, dst, "zoneinfo"))

\* C22: when the exchange's time zone cannot be resolved (the zone modules
\* are missing, or the zone data is) the quote is still returned, and with the
\* zone data missing its state is REGULAR and its price the regular price.
C22_UnresolvedZoneDefaultsToRegular ==
    (UsableQuoteAnswer /\ tz \in {"fixed", "notfound"}) =>
        /\ Returned("quote_yfinance")
        /\ tz = "notfound" =>
               /\ Result.marketState = "REGULAR"
               /\ Result.price = Result.regularMarketPrice

\* The raw prices of an upstream answer's rows, each divided by 100 once.
ConvertedCloses(rows) == {Div100(rows[i].close) : i \in 1..Len(rows)}
Prices(points) == {points[i].price : i \in 1..Len(points)}

\* The rows a historical adapter was answered with.
UpstreamRows ==
    IF adapter = "hist_yfinance"
    THEN (IF IsSome(in_resp[1]) /\ Get(in_resp[1]) # <<>>
          THEN Get(in_resp[1]) ELSE Get(in_resp[2]))
    ELSE IF adapter = "hist_fmp" THEN Get(in_resp.body.historical)
    ELSE IF adapter = "hist_twelvedata" THEN Get(in_resp.body.values)
    ELSE in_resp.body.rows

HistAdapters == {"hist_yfinance", "hist_fmp", "hist_twelvedata", "hist_stooq"}

\* A historical adapter ran and returned a list that is not empty.
ReturnedPoints(name) == Returned(name) /\ Result # <<>>
ReturnedSeries == \E name \in HistAdapters : ReturnedPoints(name)

\* A real-time adapter returned a quote.
QuoteReturned == Returned("quote_yfinance") \/ Returned("quote_fmp")

\* The price and the previous close of the provider's answer, unconverted.
RawPreviousClose ==
    IF adapter = "quote_fmp" THEN Get(in_resp.body[1].previousClose)
    ELSE yf_previous_close(SortByDate(Get(in_resp.daily)), now)
RawPrice ==
    IF adapter = "quote_fmp" THEN Get(in_resp.body[1].price)
    ELSE session_price(Result.marketState,
                       Get(yf_regular_market_price(in_resp, RawPreviousClose)),
                       InfoField(in_resp, "preMarketPrice"),
                       InfoField(in_resp, "postMarketPrice"))

SameUnits ==
    \/ Result.price = RawPrice /\ Result.previousClose = RawPreviousClose
    \/ Result.price = Div100(RawPrice)
           /\ Result.previousClose = Div100(RawPreviousClose)

\* C27: every quote a real-time adapter returns carries a marketState among
\* PRE, REGULAR, POST and CLOSED, and its price and previousClose are both
\* converted to major units or both left as the provider gave them.
C27_QuoteStateAndUnits ==
    QuoteReturned =>
        /\ "marketState" \in DOMAIN Result
        /\ Result.marketState \in {"PRE", "REGULAR", "POST", "CLOSED"}
        /\ SameUnits

\* An OHLC entry point returned candles: the list of get_stock_data.py
\* --ohlc, the "data" of get_ohlc_data.py.
ReturnedCandles ==
    \/ Returned("ohlc_yfinance")
    \/ Returned("ohlc_script") /\ Result.success
Candles == IF adapter = "ohlc_script" THEN Result.data ELSE Result

\* C26: for a symbol with a trailing .L or .LON each OHLC entry point returns
\* one candle per upstream row whose open, high, low and close are the row's
\* values divided by 100 and whose volume is the row's volume.
C26_OhlcMinorUnits ==
    (ReturnedCandles /\ IsLseSymbol(in_symbol)) =>
        /\ Len(Candles) = Len(Get(in_resp))
        /\ \A k \in 1..Len(Candles) :
               /\ Candles[k].open = Div100(Get(in_resp)[k].Open)
               /\ Candles[k].high = Div100(Get(in_resp)[k].High)
               /\ Candles[k].low = Div100(Get(in_resp)[k].Low)
               /\ Candles[k].close = Div100(Get(in_resp)[k].Close)
               /\ Candles[k].volume = Get(in_resp)[k].Volume

\* C5: for every symbol with a trailing .L or .LON, on every provider path,
\* each price field returned is the raw provider value divided by 100 once.
C5_MinorUnitsConvertedOnce ==
    /\ (Returned("quote_yfinance") /\ IsLseSymbol(in_symbol)) =>
          /\ Result.preMarketPrice = Div100Opt(InfoField(in_resp, "preMarketPrice"))
          /\ Result.postMarketPrice = Div100Opt(InfoField(in_resp, "postMarketPrice"))
          /\ \E b \in {Get(in_resp.daily)[i] : i \in 1..Len(Get(in_resp.daily))} :
                 Result.previousClose = Div100(b.Close)
    /\ (Returned("quote_fmp") /\ IsLseSymbol(in_symbol)) =>
          /\ Result.price = Div100(Get(in_resp.body[1].price))
          /\ Result.previousClose = Div100(Get(in_resp.body[1].previousClose))
    /\ (ReturnedSeries /\ IsLseSymbol(in_symbol)) =>
          Prices(Result) = ConvertedCloses(UpstreamRows)

StrictlyAscending(dates) ==
    \A i \in 1..(Len(dates) - 1) : dates[i] < dates[i + 1]
StrictlyDescending(dates) ==
    \A i \in 1..(Len(dates) - 1) : dates[i] > dates[i + 1]
Dates(rows) == [i \in 1..Len(rows) |-> rows[i].date]
Timestamps(points) == [i \in 1..Len(points) |-> points[i].timestamp]

\* C6: a historical adapter (Stooq, Twelve Data, FMP) answered with rows in
\* ascending or in descending date order returns its points in strictly
\* ascending timestamp order.
C6_SeriesAscending ==
    \A name \in {"hist_stooq", "hist_twelvedata", "hist_fmp"} :
        (/\ ReturnedPoints(name)
         /\ \/ StrictlyAscending(Dates(UpstreamRows))
            \/ StrictlyDescending(Dates(UpstreamRows)))
          => StrictlyAscending(Timestamps(Result))

\* C7: in every series returned, whichever provider produced it, each point
\* after the first has the previous point's price as its previousClose.
C7_PreviousCloseChained ==
    ReturnedSeries =>
        \A i \in 2..Len(Result) : Result[i].previousClose = Result[i - 1].price

-----------------------------------------------------------------------------
(* Dicts, the cache *)

\* A dict is a function on its keys.
EmptyDict == [k \in {} |-> None]
Put(d, k, v) == [x \in (DOMAIN d) \cup {k} |-> IF x = k THEN v ELSE d[x]]

\* The keys of a dict filled in the order of seq, in insertion order.
RECURSIVE Dedup(_)
Dedup(seq) ==
    IF seq = <<>> THEN <<>>
    ELSE LET front == Dedup(SubSeq(seq, 1, Len(seq) - 1))
             last == seq[Len(seq)]
         IN  IF \E k \in 1..Len(front) : front[k] = last
             THEN front ELSE Append(front, last)

CACHE_DURATION_SECONDS == 300

\* The module-level cache is what json.load made of the cache file: a dict
\* (items: the function from its keys to its entries) or another JSON value,
\* here the list [].
DictValue(items) == [type |-> "dict", items |-> items]
ListCache == [type |-> "list", items |-> <<>>]

\* An entry of the dict is the dict set_cache stores, or another JSON value:
\* a scalar that is truthy (5, "x") or not (null, 0).
Entry(timestamp, result) == [timestamp |-> timestamp, result |-> result]
ScalarEntry(truthy) == [scalar |-> truthy]
IsDictEntry(entry) == "timestamp" \in DOMAIN entry

\* 'list' object has no attribute 'get', 'int' object has no attribute 'get'
AttributeError == [type |-> "AttributeError"]

\* get_cached with a TTL one second short.
get_cached_short_ttl(c, symbol, at) ==
    IF c.type # "dict" THEN Exc(AttributeError)
    ELSE IF symbol \notin DOMAIN c.items THEN Ret(None)
    ELSE LET entry == c.items[symbol] IN
         IF ~IsDictEntry(entry)
         THEN (IF entry.scalar THEN Exc(AttributeError) ELSE Ret(None))
         ELSE IF entry.timestamp # 0
                 /\ at - entry.timestamp < CACHE_DURATION_SECONDS - 1
              THEN Ret(Some(entry.result))
              ELSE Ret(None)

\* get_cached with the TTL comparison written <= instead of <.
get_cached_inclusive(c, symbol, at) ==
    IF c.type # "dict" THEN Exc(AttributeError)
    ELSE IF symbol \notin DOMAIN c.items THEN Ret(None)
    ELSE LET entry == c.items[symbol] IN
         IF ~IsDictEntry(entry)
         THEN (IF entry.scalar THEN Exc(AttributeError) ELSE Ret(None))
         ELSE IF entry.timestamp # 0
                 /\ at - entry.timestamp <= CACHE_DURATION_SECONDS
              THEN Ret(Some(entry.result))
              ELSE Ret(None)

\* c is the module-level cache, at is time.time().  Ret(None) is a miss,
\* Ret(Some(result)) a hit; cache.get and entry.get raise on a value that is
\* no dict.
get_cached(c, symbol, at) ==
    IF c.type # "dict" THEN Exc(AttributeError)
    ELSE IF symbol \notin DOMAIN c.items THEN Ret(None)
    ELSE LET entry == c.items[symbol] IN
         IF ~IsDictEntry(entry)
         THEN (IF entry.scalar THEN Exc(AttributeError) ELSE Ret(None))
         ELSE IF entry.timestamp # 0
                 /\ at - entry.timestamp < CACHE_DURATION_SECONDS
              THEN Ret(Some(entry.result))
              ELSE Ret(None)

\* set_cache stamping every entry of the dict with the time of the call.
set_cache_restamping(c, symbol, result, at) ==
    DictValue([k \in (DOMAIN c.items) \cup {symbol} |->
                  IF k = symbol THEN Entry(at, result)
                  ELSE IF IsDictEntry(c.items[k]) THEN Entry(at, c.items[k].result)
                  ELSE c.items[k]])

\* set_cache dropping the entries that have expired at the time of the call.
set_cache_evicting(c, symbol, result, at) ==
    LET kept == {k \in DOMAIN c.items :
                    IsDictEntry(c.items[k]) =>
                        at - c.items[k].timestamp < CACHE_DURATION_SECONDS} IN
    DictValue([k \in kept \cup {symbol} |->
                  IF k = symbol THEN Entry(at, result) ELSE c.items[k]])

\* The cache after cache[symbol] = {'timestamp': ..., 'result': ...}.
set_cache(c, symbol, result, at) ==
    DictValue(Put(c.items, symbol, Entry(at, result)))

\* json.dump writes a tuple as a list.
json_dump_result(result) ==
    IF "tuple" \in DOMAIN result THEN [list |-> result.tuple] ELSE result

json_dump_entry(entry) ==
    IF IsDictEntry(entry)
    THEN Entry(entry.timestamp, json_dump_result(entry.result))
    ELSE entry

\* The cache file: absent, unreadable (open raises), text that is no JSON,
\* or JSON text, given by the value json.load makes of it; a read-only file
\* is JSON text that open(CACHE_FILE, 'w') refuses to overwrite.
AbsentFile == [kind |-> "absent"]
UnreadableFile == [kind |-> "unreadable"]
InvalidJsonFile == [kind |-> "invalid_json"]
JsonFile(value) == [kind |-> "json", value |-> value]
ReadOnlyFile(value) == [kind |-> "readonly", value |-> value]

OSError == [type |-> "OSError"]

\* save_cache(): the file after it, or the exception of open().
save_cache(file, c) ==
    IF file.kind = "readonly" THEN Exc(OSError)
    ELSE Ret(JsonFile(IF c.type = "dict"
                      THEN DictValue([k \in DOMAIN c.items |->
                                         json_dump_entry(c.items[k])])
                      ELSE c))

\* The module-level code that loads the cache: the value of cache, or the
\* exception of open().
load_cache(file) ==
    IF file.kind = "absent" THEN Ret(Some(DictValue(EmptyDict)))
    ELSE IF file.kind = "unreadable" THEN Exc(OSError)
    ELSE IF file.kind = "invalid_json" THEN Ret(Some(DictValue(EmptyDict)))
    ELSE Ret(Some(file.value))

-----------------------------------------------------------------------------
(* Events *)

\* What the upstream did, in one word.
Answer(up) ==
    IF up.kind = "ok" THEN "data"
    ELSE IF up.kind = "http" THEN
        (IF up.code = 401 THEN "http401" ELSE IF up.code = 403 THEN "http403"
         ELSE IF up.code = 429 THEN "http429" ELSE "http500")
    ELSE up.kind

\* Python's truth value of what an adapter returned: a quote is a dict that
\* is never empty, a series is a list.
TruthyQuote(r) == ~Raised(r) /\ IsSome(r.val)
TruthyList(r) == ~Raised(r) /\ IsSome(r.val) /\ Get(r.val) # <<>>

\* A provider adapter was invoked for the symbol and came back with r
\* (Ret or Exc).  answer is what the upstream did ("nokey": the adapter
\* issued no request for lack of an API key).  attempts is the number of
\* times the adapter went to its upstream.
CallEvent(provider, symbol, answer, r, ok, attempts) ==
    [ev |-> "call", provider |-> provider, symbol |-> symbol,
     answer |-> answer, ok |-> ok, result |-> r, attempts |-> attempts]

\* The orchestrator (fetch_real_time_quote, fetch_historical_data) came back
\* with r.
ReturnEvent(symbol, r) == [ev |-> "return", symbol |-> symbol, result |-> r]

\* get_cached(symbol) was evaluated at time "at" on the entry seen (None when
\* the cache has no such key).
LookupEvent(c, symbol, at) ==
    [ev |-> "get_cached", symbol |-> symbol, at |-> at,
     entry |-> IF c.type = "dict" /\ symbol \in DOMAIN c.items
               THEN Some(c.items[symbol]) ELSE None]

SleepEvent == [ev |-> "sleep"]

\* A result with the events that producing it left.
With(res, events) == [res |-> res, events |-> events]

-----------------------------------------------------------------------------
(* Real-time orchestration *)

YfQuoteAnswer(r, quote) ==
    IF IsSome(quote) THEN "data"
    ELSE IF IsSome(r.daily) /\ Get(r.daily) = <<>> THEN "nodata"
    ELSE "error"

FmpAnswer(up) == IF FMP_API_KEY = "" THEN "nokey" ELSE Answer(up)

\* The requests one call of make_fmp_request issues.
FmpRequests == IF FMP_API_KEY = "" THEN 0 ELSE 1

\* fetch_real_time_quote without the early return: FMP is asked also after
\* yfinance has delivered.
fetch_real_time_quote_asks_both(symbol, yf_resp, fmp_up, at, summer, tzmode) ==
    LET yf == Ret(fetch_real_time_quote_yfinance(symbol, yf_resp, at, summer, tzmode))
        fmp == fetch_real_time_quote_fmp(symbol, fmp_up, at)
        res == IF TruthyQuote(yf) THEN yf ELSE fmp
    IN  With(res, <<CallEvent("yfinance", symbol, YfQuoteAnswer(yf_resp, yf.val), yf,
                              TruthyQuote(yf), 1),
                    CallEvent("fmp", symbol, FmpAnswer(fmp_up), fmp, TruthyQuote(fmp),
                              FmpRequests),
                    ReturnEvent(symbol, res)>>)

\* yf_resp and fmp_up are what yfinance and FMP answer if they are asked.
fetch_real_time_quote(symbol, yf_resp, fmp_up, at, summer, tzmode) ==
    LET yf == Ret(fetch_real_time_quote_yfinance(symbol, yf_resp, at, summer, tzmode))
        yf_call ==
            IF YFINANCE_AVAILABLE
            THEN <<CallEvent("yfinance", symbol, YfQuoteAnswer(yf_resp, yf.val), yf,
                              TruthyQuote(yf), 1)>>
            ELSE <<>>
        fmp == fetch_real_time_quote_fmp(symbol, fmp_up, at)
    IN  IF YFINANCE_AVAILABLE /\ TruthyQuote(yf)
        THEN With(yf, yf_call \o <<ReturnEvent(symbol, yf)>>)
        ELSE With(fmp,
                  yf_call \o <<CallEvent("fmp", symbol, FmpAnswer(fmp_up), fmp, TruthyQuote(fmp),
                                         FmpRequests),
                               ReturnEvent(symbol, fmp)>>)

\* datetime.fromtimestamp(ts).strftime('%Y-%m-%d %H:%M:%S%z')
strftime(ts) == [formatted |-> ts]

\* The tuple fetch_single returns.
SingleTuple(quote_data) ==
    [tuple |-> <<strftime(quote_data.timestamp), quote_data.price, quote_data.price,
                 quote_data.price, quote_data.previousClose>>]

\* isinstance(res, dict)
IsDict(res) == "tuple" \notin DOMAIN res /\ "list" \notin DOMAIN res

\* The five items of a result that is a tuple, or the list the cache file
\* holds for one.
Unpack(res) == IF "tuple" \in DOMAIN res THEN res.tuple ELSE res.list

\* The result is None, also when fetch_real_time_quote raises.
fetch_single(symbol, yf_resp, fmp_up, at, summer, tzmode) ==
    LET r == fetch_real_time_quote(symbol, yf_resp, fmp_up, at, summer, tzmode) IN
    IF TruthyQuote(r.res) THEN With(Some(SingleTuple(Get(r.res.val))), r.events)
    ELSE With(None, r.events)

-----------------------------------------------------------------------------
(* Historical orchestration *)

S_YFINANCE == <<"y", "f", "i", "n", "a", "n", "c", "e">>
S_FMP == <<"f", "m", "p">>
S_TWELVEDATA == <<"t", "w", "e", "l", "v", "e", "d", "a", "t", "a">>
S_STOOQ == <<"s", "t", "o", "o", "q">>

\* A JSON value of the configuration: a list of strings, a string (json is
\* what json.loads makes of it, None when it raises), or anything else.
ListValue(items) == [type |-> "list", items |-> items]
StrValue(text, json) == [type |-> "str", text |-> text, json |-> json]
OtherValue == [type |-> "other"]

\* A default that would start with FMP.
default_priority_fmp_first == <<S_FMP, S_YFINANCE>>

default_priority == <<S_YFINANCE, S_FMP>>

get_fetch_priority(symbol) ==
    LET configured == CONFIG.DATA_SOURCE_PRIORITY
        config_priority ==
            IF IsSome(configured) /\ Get(configured).type = "str"
            THEN (IF IsSome(Get(configured).json)
                  THEN Get(configured).json
                  ELSE Some(ListValue(<<Get(configured).text>>)))
            ELSE configured
    IN  IF IsSome(config_priority) /\ Get(config_priority).type = "list"
        THEN Get(config_priority).items
        ELSE default_priority

Contains(seq, x) == \E k \in 1..Len(seq) : seq[k] = x

\* Loops that would append every source, seen or not.
AppendAll(valid, sources) == valid \o sources

\* The two loops that build valid_sources: each source once, in order.
RECURSIVE AppendUnseen(_, _)
AppendUnseen(valid, sources) ==
    IF sources = <<>> THEN valid
    ELSE AppendUnseen(IF Contains(valid, sources[1]) THEN valid
                      ELSE Append(valid, sources[1]),
                      Tail(sources))

ValidSources(priority) ==
    AppendUnseen(AppendUnseen(<<>>, [k \in 1..Len(priority) |-> Lower(priority[k])]),
                 <<S_YFINANCE, S_FMP, S_TWELVEDATA, S_STOOQ>>)

ProviderName(source) ==
    IF source = S_YFINANCE THEN "yfinance"
    ELSE IF source = S_FMP THEN "fmp"
    ELSE IF source = S_TWELVEDATA THEN "twelvedata"
    ELSE IF source = S_STOOQ THEN "stooq"
    ELSE "unknown"

\* Whether the loop body invokes an adapter for the source.
Invokes(source) ==
    \/ source = S_YFINANCE /\ YFINANCE_AVAILABLE
    \/ source \in {S_FMP, S_TWELVEDATA, S_STOOQ}

\* What the upstream of a source did: an answer is [kind |-> "attempts",
\* attempts |-> a] for yfinance and an HTTP upstream for the others.
HistAnswer(source, ans) ==
    IF source = S_YFINANCE THEN
        (IF \E k \in 1..max_retries :
                IsSome(History(ans.attempts, k)) /\ Get(History(ans.attempts, k)) # <<>>
         THEN "data"
         ELSE IF \E k \in 1..max_retries : IsNone(History(ans.attempts, k)) THEN "error"
         ELSE "nodata")
    ELSE IF source = S_FMP /\ FMP_API_KEY = "" THEN "nokey"
    ELSE IF source = S_TWELVEDATA /\ TWELVE_DATA_API_KEY = "" THEN "nokey"
    ELSE IF ans.kind # "ok" THEN Answer(ans)
    ELSE IF source = S_FMP THEN
        (IF IsSome(ans.body.historical) /\ Get(ans.body.historical) # <<>>
         THEN "data" ELSE "nodata")
    ELSE IF source = S_TWELVEDATA THEN
        (IF IsSome(ans.body.code) /\ Get(ans.body.code) # 200 THEN "error"
         ELSE IF ans.body.status = "error" THEN "error"
         ELSE IF IsSome(ans.body.values) /\ Get(ans.body.values) # <<>>
         THEN "data" ELSE "nodata")
    ELSE (IF ans.body.nodata \/ ans.body.rows = <<>> THEN "nodata" ELSE "data")

\* The dispatch of the loop body on the source's name.
HistCall(source, symbol, ans) ==
    IF source = S_YFINANCE THEN fetch_historical_data_yfinance(symbol, ans.attempts)
    ELSE IF source = S_FMP THEN fetch_historical_data_fmp(symbol, ans)
    ELSE IF source = S_TWELVEDATA THEN fetch_historical_data_twelvedata(symbol, ans)
    ELSE fetch_historical_data_stooq(symbol, ans)

\* The number of times the adapter of the source goes to its upstream when
\* the upstream answers ans.
HistAttempts(source, ans) ==
    IF source = S_YFINANCE
    THEN (IF YFINANCE_AVAILABLE THEN yf_history_calls(ans.attempts, 1) ELSE 0)
    ELSE IF source = S_FMP THEN FmpRequests
    ELSE IF source = S_TWELVEDATA THEN (IF TWELVE_DATA_API_KEY = "" THEN 0 ELSE 1)
    ELSE 1

-----------------------------------------------------------------------------
(* Inputs of a run of main() *)

MaxSymbols == 2

FlowSymbols == {AAPL, AV_L}

\* time.time() when main() starts: one second before 13:30:00 UTC.
StartTime == 60 * (13 * 60 + 30) - 1

\* What an earlier run left in the cache file: a quote dict that has just
\* expired, one that is about to, and the list a fetch_single tuple is
\* saved as.
CachedQuote(symbol, age) ==
    Entry(StartTime - age,
          [symbol |-> symbol, price |-> Price(50),
           previousClose |-> Price(49), timestamp |-> StartTime - age])
CachedTuple(symbol, age) ==
    Entry(StartTime - age,
          [list |-> <<strftime(StartTime - age), Price(60), Price(60),
                      Price(60), Price(59)>>])
CacheEntries(symbol) ==
    IF symbol = AAPL
    THEN {CachedQuote(symbol, CACHE_DURATION_SECONDS),
          CachedQuote(symbol, CACHE_DURATION_SECONDS - 1),
          CachedTuple(symbol, 1)}
    ELSE {CachedQuote(symbol, CACHE_DURATION_SECONDS - 1)}
CacheDicts ==
    UNION {{c \in [D -> UNION {CacheEntries(t) : t \in D}] :
                \A t \in D : c[t] \in CacheEntries(t)} :
           D \in SUBSET FlowSymbols}

\* Cache files that load: absent, no JSON, the dicts earlier runs leave,
\* JSON that no run of the program wrote (a list, a dict with a scalar for
\* an entry), and a file that cannot be written, empty or left by an earlier
\* run.
CacheFiles ==
    {AbsentFile, InvalidJsonFile, JsonFile(ListCache)}
    \cup {JsonFile(DictValue(c)) : c \in CacheDicts}
    \cup {JsonFile(DictValue(Put(EmptyDict, AAPL, ScalarEntry(truthy)))) :
              truthy \in BOOLEAN}
    \cup {ReadOnlyFile(DictValue(EmptyDict)),
          ReadOnlyFile(DictValue(Put(EmptyDict, AAPL,
                                     CachedQuote(AAPL, CACHE_DURATION_SECONDS - 1))))}

QuoteArgs ==
    {[mode |-> "quote", symbols |-> ss, start_date |-> None, end_date |-> None] :
        ss \in SeqsUpTo(FlowSymbols, MaxSymbols)}

HistArgs ==
    {[mode |-> "historical", symbols |-> ss, start_date |-> d, end_date |-> Some(MaxDate)] :
        ss \in SeqsUpTo(FlowSymbols, 1), d \in {None, Some(1)}}
    \cup {[mode |-> "historical", symbols |-> <<AAPL>>, start_date |-> Some(1),
           end_date |-> None]}

\* --ohlc and --batch-ohlc: batch_ohlc tells which of the two flags is set.
OhlcArgs ==
    {[mode |-> "ohlc", symbols |-> ss, batch_ohlc |-> b,
      start_date |-> None, end_date |-> None] :
        ss \in SeqsUpTo(FlowSymbols, MaxSymbols), b \in BOOLEAN}

\* yfinance answers of a run: a full answer, an empty one, a raising one.
FlowYfQuotes ==
    {[daily |-> d,
      info |-> Some(Info(None, Some(RawPre), Some(RawPost), Some(RawRegular))),
      fast |-> Some(RawFast),
      intraday |-> Some(<<>>)] : d \in {None, Some(<<>>), Some(<<PriorBar>>)}}

\* FMP answers of a run: HTTP 429, an empty list, a quote.
FlowFmpQuotes ==
    {[kind |-> "http", code |-> 429], Ok(<<>>),
     Ok(<<[price |-> Some(RawRegular), previousClose |-> Some(RawPrior),
           timestamp |-> None]>>)}

FlowRows == {<<[date |-> 1, open |-> Some(Price(101)), close |-> Price(100)]>>}
FlowFailures == {[kind |-> "http", code |-> 401], [kind |-> "http", code |-> 429],
                 [kind |-> "conn"], [kind |-> "timeout"]}

\* The answers a source can give in a run.
HistAnswers(source) ==
    IF source = S_YFINANCE THEN
        {[kind |-> "attempts", attempts |-> a] :
            a \in {<<None, None>>, <<Some(<<>>), Some(<<>>)>>}
                  \cup {<<None, Some(rs)>> : rs \in FlowRows}}
    ELSE IF source = S_FMP THEN
        FlowFailures \cup {Ok([historical |-> None])}
                     \cup {Ok([historical |-> Some(rs)]) : rs \in FlowRows}
    ELSE IF source = S_TWELVEDATA THEN
        FlowFailures \cup {Ok([code |-> None, status |-> "ok", values |-> None])}
                     \cup {Ok([code |-> None, status |-> "ok", values |-> Some(rs)]) :
                               rs \in FlowRows}
    ELSE FlowFailures \cup {Ok([nodata |-> TRUE, rows |-> <<>>])}
                      \cup {Ok([nodata |-> FALSE, rows |-> rs]) : rs \in FlowRows}

\* A name the loop of fetch_historical_data does not know.
S_UNKNOWN == <<"i", "e", "x">>

\* A configuration that puts FMP ahead of yfinance.
FmpFirstConfig == [DATA_SOURCE_PRIORITY |-> Some(ListValue(<<S_FMP, S_YFINANCE>>))]

Configs ==
    {NoConfig,
     [DATA_SOURCE_PRIORITY |-> Some(ListValue(<<S_UNKNOWN, S_TWELVEDATA>>))],
     [DATA_SOURCE_PRIORITY |-> Some(ListValue(<<S_STOOQ, Upper(S_FMP), S_FMP>>))],
     [DATA_SOURCE_PRIORITY |-> Some(StrValue(S_TWELVEDATA, None))],
     [DATA_SOURCE_PRIORITY |-> Some(OtherValue)]}

\* The adapter variables of the single-adapter runs, when main() runs.
AdapterIdle ==
    /\ adapter = "none" /\ in_symbol = <<>> /\ in_resp = None /\ out = None

\* The cache files of historical and OHLC runs: a list, a dict with an
\* entry that has not expired.
OtherModeFiles ==
    {JsonFile(ListCache),
     JsonFile(DictValue(Put(EmptyDict, AAPL,
                            CachedQuote(AAPL, CACHE_DURATION_SECONDS - 1))))}

\* The command line, the configuration and the cache file of a run.
Environment(quote_files, other_files) ==
    \/ /\ args \in {Some(a) : a \in QuoteArgs}
       /\ cache_file \in quote_files
       /\ \/ YFINANCE_AVAILABLE = TRUE /\ FMP_API_KEY = "key"
          \/ YFINANCE_AVAILABLE = FALSE /\ FMP_API_KEY = "key"
          \/ YFINANCE_AVAILABLE = TRUE /\ FMP_API_KEY = ""
       /\ TWELVE_DATA_API_KEY = "key"
       /\ CONFIG = NoConfig
    \/ /\ args \in {Some(a) : a \in {q \in QuoteArgs : Len(q.symbols) <= 1}}
       /\ cache_file = AbsentFile
       /\ YFINANCE_AVAILABLE = TRUE /\ FMP_API_KEY = "key"
       /\ TWELVE_DATA_API_KEY = "key"
       /\ CONFIG = FmpFirstConfig
    \/ /\ args \in {Some(a) : a \in HistArgs}
       /\ cache_file \in other_files
       /\ YFINANCE_AVAILABLE \in BOOLEAN
       /\ FMP_API_KEY \in {"", "key"}
       /\ TWELVE_DATA_API_KEY \in {"", "key"}
       /\ CONFIG \in Configs
    \/ /\ args \in {Some(a) : a \in OhlcArgs}
       /\ cache_file \in other_files
       /\ YFINANCE_AVAILABLE \in BOOLEAN
       /\ FMP_API_KEY = "key"
       /\ TWELVE_DATA_API_KEY = "key"
       /\ CONFIG = NoConfig

\* The locals of main() before it runs.
MainIdle ==
    /\ symbols = <<>> /\ idx = 0
    /\ results = EmptyDict /\ symbols_to_fetch = <<>> /\ batch_results = EmptyDict
    /\ valid_sources = <<>> /\ last_error = None /\ main_historical_data = None
    /\ trace = <<>> /\ output = None

\* The module has been imported: the cache is loaded, main() starts.
Init ==
    /\ AdapterIdle
    /\ now = StartTime /\ dst = TRUE /\ tz = "zoneinfo"
    /\ pc = "start"
    /\ MainIdle
    /\ Environment(CacheFiles, OtherModeFiles)
    /\ cache = Get(load_cache(cache_file).val)

-----------------------------------------------------------------------------
(* main() *)

\* output_error prints the object; symbol is None when it is not passed.
ErrorObject(error_code, symbol) ==
    [kind |-> "error", error_code |-> error_code, symbol |-> symbol]

\* What the process leaves: stdout and the exit status.
Exit(stdout, status) == Some([stdout |-> stdout, status |-> status])

\* f"{x:.2f}": the price to the nearest cent.
Format2f(x) == [cents |-> (x + 50) \div 100]

\* The branches of main() that end in INVALID_REQUEST.
MainInvalidRequest ==
    /\ pc = "start"
    /\ \/ /\ Get(args).mode = "historical"
          /\ \/ Get(args).symbols = <<>>
             \/ IsNone(Get(args).start_date)
             \/ IsNone(Get(args).end_date)
       \/ /\ Get(args).mode = "quote"
          /\ Len(Get(args).symbols) < 1
       \/ /\ Get(args).mode = "ohlc"
          /\ Get(args).symbols = <<>>
    /\ output' = Exit(ErrorObject("INVALID_REQUEST", None), 1)
    /\ pc' = "done"
    /\ UNCHANGED <<configVars, clockVars, adapterVars, args, symbols, idx, cache,
                   cache_file, results, symbols_to_fetch, batch_results,
                   valid_sources, last_error, main_historical_data, trace>>

\* A historical branch that would not look at the dates.
HistStart_unchecked ==
    /\ pc = "start"
    /\ Get(args).mode = "historical"
    /\ Get(args).symbols # <<>>
    /\ symbols' = <<Get(args).symbols[1]>>
    /\ valid_sources' = ValidSources(get_fetch_priority(Get(args).symbols[1]))
    /\ last_error' = None
    /\ idx' = 1
    /\ pc' = "hist_loop"
    /\ UNCHANGED <<configVars, clockVars, adapterVars, args, cache, cache_file,
                   results, symbols_to_fetch, batch_results, main_historical_data,
                   trace, output>>

\* Historical mode up to the loop of fetch_historical_data.
HistStart ==
    /\ pc = "start"
    /\ Get(args).mode = "historical"
    /\ Get(args).symbols # <<>>
    /\ IsSome(Get(args).start_date) /\ IsSome(Get(args).end_date)
    /\ symbols' = <<Get(args).symbols[1]>>
    /\ valid_sources' = ValidSources(get_fetch_priority(Get(args).symbols[1]))
    /\ last_error' = None
    /\ idx' = 1
    /\ pc' = "hist_loop"
    /\ UNCHANGED <<configVars, clockVars, adapterVars, args, cache, cache_file,
                   results, symbols_to_fetch, batch_results, main_historical_data,
                   trace, output>>

\* One pass of "for source in valid_sources" for a source that is not asked:
\* yfinance when it is not installed, a name the loop does not know.
HistSkipSource ==
    /\ pc = "hist_loop"
    /\ idx <= Len(valid_sources)
    /\ ~Invokes(valid_sources[idx])
    /\ idx' = idx + 1
    /\ UNCHANGED <<configVars, clockVars, adapterVars, args, pc, symbols, cache,
                   cache_file, results, symbols_to_fetch, batch_results,
                   valid_sources, last_error, main_historical_data, trace, output>>

\* A loop that would give up at the first source that raised.
NextSource_abort(k, result) ==
    IF Raised(result) THEN Len(valid_sources) + 1 ELSE k + 1

\* Where the loop goes after source k delivered nothing or raised: the
\* except clause ends in "continue", a falsy result falls through.
NextSource(k, result) == k + 1

\* One pass of "for source in valid_sources" for a source that is asked.
HistTrySource ==
    /\ pc = "hist_loop"
    /\ idx <= Len(valid_sources)
    /\ Invokes(valid_sources[idx])
    /\ \E ans \in HistAnswers(valid_sources[idx]) :
        LET source == valid_sources[idx]
            symbol == symbols[1]
            result == HistCall(source, symbol, ans)
            call == CallEvent(ProviderName(source), symbol, HistAnswer(source, ans),
                              result, TruthyList(result), HistAttempts(source, ans))
        IN  IF TruthyList(result)
            THEN /\ main_historical_data' = result.val
                 /\ trace' = trace \o <<call, ReturnEvent(symbol, result)>>
                 /\ pc' = "output"
                 /\ UNCHANGED <<idx, last_error>>
            ELSE /\ last_error' = IF Raised(result) THEN result.exc ELSE last_error
                 /\ trace' = Append(trace, call)
                 /\ idx' = NextSource(idx, result)
                 /\ UNCHANGED <<pc, main_historical_data>>
    /\ UNCHANGED <<configVars, clockVars, adapterVars, args, symbols, cache,
                   cache_file, results, symbols_to_fetch, batch_results,
                   valid_sources, output>>

\* The loop is over: "all sources failed", return None.
HistExhausted ==
    /\ pc = "hist_loop"
    /\ idx > Len(valid_sources)
    /\ main_historical_data' = None
    /\ trace' = Append(trace, ReturnEvent(symbols[1], Ret(None)))
    /\ pc' = "output"
    /\ UNCHANGED <<configVars, clockVars, adapterVars, args, symbols, idx, cache,
                   cache_file, results, symbols_to_fetch, batch_results,
                   valid_sources, last_error, output>>

\* A historical branch that would store what it fetched like the real-time
\* branch does (the code does not).
HistOutput_caching ==
    /\ pc = "output"
    /\ Get(args).mode = "historical"
    /\ output' =
        IF IsSome(main_historical_data)
        THEN Exit([kind |-> "json", data |-> Get(main_historical_data)], 0)
        ELSE Exit(ErrorObject("NO_DATA", Some(symbols[1])), 0)
    /\ cache' =
        IF cache.type = "dict" /\ IsSome(main_historical_data)
        THEN set_cache(cache, symbols[1], Get(main_historical_data), now)
        ELSE cache
    /\ cache_file' = cache_file
    /\ pc' = "done"
    /\ UNCHANGED <<configVars, clockVars, adapterVars, args, symbols, idx,
                   results, symbols_to_fetch, batch_results,
                   valid_sources, last_error, main_historical_data, trace>>

\* print(json.dumps(historical_data)) or output_error('NO_DATA', ...).
HistOutput ==
    /\ pc = "output"
    /\ Get(args).mode = "historical"
    /\ output' =
        IF IsSome(main_historical_data)
        THEN Exit([kind |-> "json", data |-> Get(main_historical_data)], 0)
        ELSE Exit(ErrorObject("NO_DATA", Some(symbols[1])), 0)
    /\ pc' = "done"
    /\ UNCHANGED <<configVars, clockVars, adapterVars, args, symbols, idx, cache,
                   cache_file, results, symbols_to_fetch, batch_results,
                   valid_sources, last_error, main_historical_data, trace>>

\* Real-time mode up to the loop over symbols.
QuoteStart ==
    /\ pc = "start"
    /\ Get(args).mode = "quote"
    /\ Len(Get(args).symbols) >= 1
    /\ symbols' = [k \in 1..Len(Get(args).symbols) |-> Upper(Get(args).symbols[k])]
    /\ results' = EmptyDict
    /\ symbols_to_fetch' = <<>>
    /\ idx' = 1
    /\ pc' = "main_cache"
    /\ UNCHANGED <<configVars, clockVars, adapterVars, args, cache, cache_file,
                   batch_results, valid_sources, last_error, main_historical_data,
                   trace, output>>

\* One pass of main()'s "for symbol in symbols"; after the last pass,
\* "if symbols_to_fetch" enters fetch_batch or goes on to the output.
MainCheckCache ==
    /\ pc = "main_cache"
    /\ idx <= Len(symbols)
    /\ ~Raised(get_cached(cache, symbols[idx], now))
    /\ LET symbol == symbols[idx]
           cached == get_cached(cache, symbol, now).val
           to_fetch == IF IsSome(cached) THEN symbols_to_fetch
                       ELSE Append(symbols_to_fetch, symbol)
       IN  /\ results' = IF IsSome(cached) THEN Put(results, symbol, cached)
                         ELSE results
           /\ symbols_to_fetch' = to_fetch
           /\ trace' = Append(trace, LookupEvent(cache, symbol, now))
           /\ IF idx < Len(symbols)
              THEN idx' = idx + 1 /\ UNCHANGED <<pc, batch_results>>
              ELSE IF to_fetch # <<>>
                   THEN idx' = 1 /\ pc' = "fetch_batch" /\ batch_results' = EmptyDict
                   ELSE idx' = 1 /\ pc' = "output" /\ UNCHANGED batch_results
    /\ UNCHANGED <<configVars, clockVars, adapterVars, args, symbols, cache,
                   cache_file, valid_sources, last_error, main_historical_data,
                   output>>

\* An uncaught exception ends the process with a traceback on stderr,
\* nothing on stdout and exit status 1.
Traceback(exception) == [kind |-> "traceback", exception |-> exception]

\* A pass of main()'s "for symbol in symbols" in which get_cached raises:
\* the call is outside every try.
MainCacheError ==
    /\ pc = "main_cache"
    /\ idx <= Len(symbols)
    /\ Raised(get_cached(cache, symbols[idx], now))
    /\ trace' = Append(trace, LookupEvent(cache, symbols[idx], now))
    /\ output' = Exit(Traceback(Get(get_cached(cache, symbols[idx], now).exc)), 1)
    /\ pc' = "done"
    /\ UNCHANGED <<configVars, clockVars, adapterVars, args, symbols, idx, cache,
                   cache_file, results, symbols_to_fetch, batch_results,
                   valid_sources, last_error, main_historical_data>>

\* A loop of fetch_batch that a symbol without a result would end.
BatchAdvance_until_failure ==
    IF idx < Len(symbols_to_fetch) /\ IsSome(batch_results'[symbols_to_fetch[idx]])
    THEN idx' = idx + 1 /\ UNCHANGED pc
    ELSE idx' = 1 /\ pc' = "main_retry"

\* After a pass of fetch_batch's loop: the next symbol, or back in main().
BatchAdvance ==
    IF idx < Len(symbols_to_fetch)
    THEN idx' = idx + 1 /\ UNCHANGED pc
    ELSE idx' = 1 /\ pc' = "main_retry"

\* One pass of fetch_batch's "for symbol in symbols" that finds the symbol
\* in the cache.  (get_cached does not raise here: main() has looked every
\* symbol up before, and set_cache stores dicts only.)
FetchBatchCached ==
    /\ pc = "fetch_batch"
    /\ LET symbol == symbols_to_fetch[idx]
           cached == get_cached(cache, symbol, now).val
       IN  /\ IsSome(cached)
           /\ batch_results' = Put(batch_results, symbol, cached)
           /\ trace' = Append(trace, LookupEvent(cache, symbol, now))
    /\ BatchAdvance
    /\ UNCHANGED <<configVars, clockVars, adapterVars, args, symbols, cache,
                   cache_file, results, symbols_to_fetch, valid_sources, last_error,
                   main_historical_data, output>>

\* The rest of a pass of fetch_batch's loop with what fetch_real_time_quote
\* delivered or raised: "if result: set_cache(...)", the sleep, and the
\* except clause for what the try raised.
BatchStoreFetched(symbol, r) ==
    LET quote_data == r.res
        events == <<LookupEvent(cache, symbol, now)>> \o r.events
        stored == set_cache(cache, symbol, Get(quote_data.val), now)
    IN  IF Raised(quote_data)
        THEN /\ batch_results' = Put(batch_results, symbol, None)
             /\ trace' = trace \o events
             /\ UNCHANGED <<cache, cache_file, now>>
        ELSE IF TruthyQuote(quote_data) /\ Raised(save_cache(cache_file, stored))
        THEN /\ cache' = stored
             /\ batch_results' = Put(batch_results, symbol, None)
             /\ trace' = trace \o events
             /\ UNCHANGED <<cache_file, now>>
        ELSE /\ IF TruthyQuote(quote_data)
                THEN /\ cache' = stored
                     /\ cache_file' = save_cache(cache_file, stored).val
                     /\ batch_results' = Put(batch_results, symbol, quote_data.val)
                ELSE /\ batch_results' = Put(batch_results, symbol, None)
                     /\ UNCHANGED <<cache, cache_file>>
             /\ trace' = trace \o events \o <<SleepEvent>>
             /\ now' = now + 1

\* One pass of fetch_batch's "for symbol in symbols" that asks the providers.
FetchBatchFetch ==
    /\ pc = "fetch_batch"
    /\ LET symbol == symbols_to_fetch[idx] IN
       /\ IsNone(get_cached(cache, symbol, now).val)
       /\ \E yf_resp \in FlowYfQuotes, fmp_up \in FlowFmpQuotes :
              BatchStoreFetched(symbol,
                                fetch_real_time_quote(symbol, yf_resp, fmp_up,
                                                      now, dst, tz))
    /\ BatchAdvance
    /\ UNCHANGED <<configVars, dst, tz, adapterVars, args, symbols, results,
                   symbols_to_fetch, valid_sources, last_error, main_historical_data,
                   output>>

\* batch_results.items(): the keys in the order of their first insertion.
BatchKeys == Dedup(symbols_to_fetch)

RetryAdvance ==
    IF idx < Len(BatchKeys)
    THEN idx' = idx + 1 /\ UNCHANGED pc
    ELSE idx' = 1 /\ pc' = "output"

\* One pass of "for symbol, res in batch_results.items()" with a result.
MainKeepResult ==
    /\ pc = "main_retry"
    /\ LET symbol == BatchKeys[idx] IN
       /\ IsSome(batch_results[symbol])
       /\ results' = Put(results, symbol, batch_results[symbol])
    /\ RetryAdvance
    /\ UNCHANGED <<configVars, clockVars, adapterVars, args, symbols, cache,
                   cache_file, symbols_to_fetch, batch_results, valid_sources,
                   last_error, main_historical_data, trace, output>>

\* "results[symbol] = single_res; if single_res: set_cache(symbol, single_res)"
\* with what fetch_single delivered; when set_cache raises, main()'s
\* "except Exception" prints NETWORK_ERROR and exits with status 1.
MainStoreSingle(symbol, single) ==
    /\ trace' = trace \o single.events
    /\ IF IsNone(single.res)
       THEN /\ results' = Put(results, symbol, single.res)
            /\ RetryAdvance
            /\ UNCHANGED <<cache, cache_file, output>>
       ELSE IF Raised(save_cache(cache_file,
                                 set_cache(cache, symbol, Get(single.res), now)))
       THEN /\ cache' = set_cache(cache, symbol, Get(single.res), now)
            /\ output' = Exit(ErrorObject("NETWORK_ERROR", None), 1)
            /\ pc' = "done"
            /\ UNCHANGED <<idx, cache_file, results>>
       ELSE /\ results' = Put(results, symbol, single.res)
            /\ cache' = set_cache(cache, symbol, Get(single.res), now)
            /\ cache_file' = save_cache(cache_file, cache').val
            /\ RetryAdvance
            /\ UNCHANGED output

\* One pass of "for symbol, res in batch_results.items()" without one:
\* fetch_single asks the providers once more.
MainRetrySingle ==
    /\ pc = "main_retry"
    /\ LET symbol == BatchKeys[idx] IN
       /\ IsNone(batch_results[symbol])
       /\ \E yf_resp \in FlowYfQuotes, fmp_up \in FlowFmpQuotes :
           MainStoreSingle(symbol,
                           fetch_single(symbol, yf_resp, fmp_up, now, dst, tz))
    /\ UNCHANGED <<configVars, clockVars, adapterVars, args, symbols,
                   symbols_to_fetch, batch_results, valid_sources, last_error,
                   main_historical_data>>

\* results.get(symbol)
ResultOf(symbol) == IF symbol \in DOMAIN results THEN results[symbol] ELSE None

\* The line printed for a single symbol.
QuoteLine(symbol, res) ==
    IF IsDict(res)
    THEN [kind |-> "line", symbol |-> symbol,
          timestamp_str |-> strftime(res.timestamp),
          low |-> Format2f(res.price), high |-> Format2f(res.price),
          close |-> Format2f(res.price), prev_close |-> Format2f(res.previousClose)]
    ELSE [kind |-> "line", symbol |-> symbol,
          timestamp_str |-> Unpack(res)[1],
          low |-> Format2f(Unpack(res)[2]), high |-> Format2f(Unpack(res)[3]),
          close |-> Format2f(Unpack(res)[4]), prev_close |-> Format2f(Unpack(res)[5])]

\* The item appended to json_results for a symbol with a result.
JsonItem(symbol, res, at) ==
    IF IsDict(res) THEN res
    ELSE [symbol |-> symbol, price |-> Unpack(res)[4],
          previousClose |-> Unpack(res)[5], timestamp |-> at]

\* The loop that builds json_results, over symbols[1..n].
RECURSIVE JsonResults(_)
JsonResults(n) ==
    IF n = 0 THEN <<>>
    ELSE LET res == ResultOf(symbols[n]) IN
         IF IsSome(res)
         THEN Append(JsonResults(n - 1), JsonItem(symbols[n], Get(res), now))
         ELSE JsonResults(n - 1)

\* The output of real-time mode.
QuoteOutput ==
    /\ pc = "output"
    /\ Get(args).mode = "quote"
    /\ output' =
        IF Len(symbols) = 1
        THEN (IF IsSome(ResultOf(symbols[1]))
              THEN Exit(QuoteLine(symbols[1], Get(ResultOf(symbols[1]))), 0)
              ELSE Exit(ErrorObject("NO_DATA", Some(symbols[1])), 0))
        ELSE (IF JsonResults(Len(symbols)) # <<>>
              THEN Exit([kind |-> "json", data |-> JsonResults(Len(symbols))], 0)
              ELSE Exit(ErrorObject("NO_DATA", None), 0))
    /\ pc' = "done"
    /\ UNCHANGED <<configVars, clockVars, adapterVars, args, symbols, idx, cache,
                   cache_file, results, symbols_to_fetch, batch_results,
                   valid_sources, last_error, main_historical_data, trace>>

\* The events of one fetch_ohlc_data.
OhlcEvents(symbol, hist) ==
    LET result == Ret(fetch_ohlc_data(symbol, hist)) IN
    (IF YFINANCE_AVAILABLE
     THEN <<CallEvent("yfinance", symbol,
                      IF IsNone(hist) THEN "error"
                      ELSE IF Get(hist) = <<>> THEN "nodata" ELSE "data",
                      result, IsSome(result.val), 1)>>
     ELSE <<>>)
    \o <<ReturnEvent(symbol, result)>>

\* OHLC mode up to the fetch.
OhlcStart ==
    /\ pc = "start"
    /\ Get(args).mode = "ohlc"
    /\ Get(args).symbols # <<>>
    /\ symbols' = [k \in 1..Len(Get(args).symbols) |-> Upper(Get(args).symbols[k])]
    /\ results' = EmptyDict
    /\ idx' = 1
    /\ pc' = IF Get(args).batch_ohlc /\ Len(Get(args).symbols) > 1
             THEN "ohlc_batch" ELSE "ohlc_single"
    /\ UNCHANGED <<configVars, clockVars, adapterVars, args, cache, cache_file,
                   symbols_to_fetch, batch_results, valid_sources, last_error,
                   main_historical_data, trace, output>>

\* fetch_ohlc_data for the first symbol and its output.
OhlcSingle ==
    /\ pc = "ohlc_single"
    /\ \E hist \in OhlcHists :
        LET symbol == symbols[1]
            ohlc_data == fetch_ohlc_data(symbol, hist)
        IN  /\ trace' = trace \o OhlcEvents(symbol, hist)
            /\ output' = IF IsSome(ohlc_data)
                         THEN Exit([kind |-> "json", data |-> Get(ohlc_data)], 0)
                         ELSE Exit(ErrorObject("NO_DATA", Some(symbol)), 0)
    /\ pc' = "done"
    /\ UNCHANGED <<configVars, clockVars, adapterVars, args, symbols, idx, cache,
                   cache_file, results, symbols_to_fetch, batch_results,
                   valid_sources, last_error, main_historical_data>>

\* One pass of fetch_batch_ohlc's "for symbol in symbols".
OhlcBatchStep ==
    /\ pc = "ohlc_batch"
    /\ \E hist \in OhlcHists :
        LET symbol == symbols[idx] IN
        /\ results' = Put(results, symbol, fetch_ohlc_data(symbol, hist))
        /\ trace' = trace \o OhlcEvents(symbol, hist) \o <<SleepEvent>>
    /\ now' = now + 1
    /\ IF idx < Len(symbols)
       THEN idx' = idx + 1 /\ UNCHANGED pc
       ELSE idx' = 1 /\ pc' = "output"
    /\ UNCHANGED <<configVars, dst, tz, adapterVars, args, symbols, cache,
                   cache_file, symbols_to_fetch, batch_results, valid_sources,
                   last_error, main_historical_data, output>>

\* The dict printed by --batch-ohlc: the symbols that have data.
OhlcOutput ==
    /\ pc = "output"
    /\ Get(args).mode = "ohlc"
    /\ output' =
        Exit([kind |-> "json",
              data |-> [t \in {u \in DOMAIN results : IsSome(results[u])} |->
                            Get(results[t])]], 0)
    /\ pc' = "done"
    /\ UNCHANGED <<configVars, clockVars, adapterVars, args, symbols, idx, cache,
                   cache_file, results, symbols_to_fetch, batch_results,
                   valid_sources, last_error, main_historical_data, trace>>

\* The module-level code before main(): the cache is loaded, or open()
\* raises and the process ends.
LoadCache ==
    /\ pc = "import"
    /\ IF Raised(load_cache(cache_file))
       THEN /\ output' = Exit(Traceback(Get(load_cache(cache_file).exc)), 1)
            /\ pc' = "done"
            /\ UNCHANGED cache
       ELSE /\ cache' = Get(load_cache(cache_file).val)
            /\ pc' = "start"
            /\ UNCHANGED output
    /\ UNCHANGED <<configVars, clockVars, adapterVars, args, symbols, idx,
                   cache_file, results, symbols_to_fetch, batch_results,
                   valid_sources, last_error, main_historical_data, trace>>

Next ==
    \/ MainInvalidRequest
    \/ OhlcStart
    \/ OhlcSingle
    \/ OhlcBatchStep
    \/ OhlcOutput
    \/ HistStart
    \/ HistSkipSource
    \/ HistTrySource
    \/ HistExhausted
    \/ HistOutput
    \/ QuoteStart
    \/ MainCheckCache
    \/ MainCacheError
    \/ FetchBatchCached
    \/ FetchBatchFetch
    \/ MainKeepResult
    \/ MainRetrySingle
    \/ QuoteOutput

Spec == Init /\ [][Next]_vars

\* The process from its start: the module-level code, then main().  The
\* cache file may be any file, one that cannot be opened included.
ImportFiles ==
    {AbsentFile, UnreadableFile, InvalidJsonFile, JsonFile(ListCache),
     JsonFile(DictValue(Put(EmptyDict, AAPL, ScalarEntry(TRUE)))),
     JsonFile(DictValue(Put(EmptyDict, AAPL,
                            CachedQuote(AAPL, CACHE_DURATION_SECONDS - 1))))}

ImportInit ==
    /\ AdapterIdle
    /\ now = StartTime /\ dst = TRUE /\ tz = "zoneinfo"
    /\ pc = "import"
    /\ MainIdle
    /\ Environment(ImportFiles, {AbsentFile, UnreadableFile})
    /\ cache = DictValue(EmptyDict)

ImportNext == LoadCache \/ Next

SpecImport == ImportInit /\ [][ImportNext]_vars

-----------------------------------------------------------------------------
(* Properties of a run of main() *)

Mode == IF IsSome(args) THEN Get(args).mode ELSE "none"
Stdout == Get(output).stdout

IsCall(e) == e.ev = "call"
IsLookup(e) == e.ev = "get_cached"

\* The lookup saw an entry younger than 300 seconds.
FreshLookup(e) ==
    /\ IsLookup(e)
    /\ IsSome(e.entry)
    /\ IsDictEntry(Get(e.entry))
    /\ e.at - Get(e.entry).timestamp < 300

\* The cached result res is what the process reports for the symbol.
Reported(symbol, res) ==
    IF Len(symbols) = 1
    THEN Stdout = QuoteLine(symbol, res)
    ELSE /\ Stdout.kind = "json"
         /\ \E k \in 1..Len(Stdout.data) : Stdout.data[k] = JsonItem(symbol, res, now)

\* main() left through its "except Exception" around the fetch section.
NetworkError == IsSome(output) /\ Stdout = ErrorObject("NETWORK_ERROR", None)

\* The result main() holds for the symbol, or, while main() has not yet copied
\* fetch_batch's results into its own, the one fetch_batch returned for it.
HeldResult(symbol) ==
    IF symbol \in DOMAIN results THEN results[symbol]
    ELSE IF symbol \in DOMAIN batch_results THEN batch_results[symbol]
    ELSE None

C2_FirstSuccessWins ==
    \A i \in 1..Len(trace) :
        (IsCall(trace[i]) /\ trace[i].ok) =>
            /\ i < Len(trace)
            /\ trace[i + 1].ev = "return"
            /\ trace[i + 1].result = trace[i].result

\* A finished historical request in which the first source asked failed, the
\* second delivered, and sources of the effective list were left unasked.
C2_Witness ==
    /\ pc = "done"
    /\ Mode = "historical"
    /\ Len(trace) = 3
    /\ IsCall(trace[1]) /\ ~trace[1].ok
    /\ IsCall(trace[2]) /\ trace[2].ok
    /\ trace[2].provider # ProviderName(valid_sources[Len(valid_sources)])

\* The failure kind of a provider invocation that delivered nothing.
FailureKind(e) ==
    IF e.answer \in {"http401", "http403", "nokey"} THEN "AuthInvalid"
    ELSE IF e.answer = "http429" THEN "RateLimited"
    ELSE IF e.answer = "timeout" THEN "Timeout"
    ELSE IF e.answer = "conn" THEN "Network"
    ELSE IF e.answer = "nodata" THEN "NoData"
    ELSE "Unknown"

Precedence == <<"AuthInvalid", "RateLimited", "Timeout", "Network", "NoData", "Unknown">>

FailedKinds == {FailureKind(trace[i]) : i \in {k \in 1..Len(trace) : IsCall(trace[k])}}

\* The first kind of the precedence order among the failures.
HighestKind ==
    Precedence[CHOOSE r \in 1..Len(Precedence) :
                   /\ Precedence[r] \in FailedKinds
                   /\ \A q \in 1..(r - 1) : Precedence[q] \notin FailedKinds]

\* The error_code main() prints for a kind.
ErrorCode(kind) ==
    IF kind = "AuthInvalid" THEN "API_KEY_RESTRICTED"
    ELSE IF kind = "RateLimited" THEN "RATE_LIMIT"
    ELSE IF kind = "Timeout" THEN "TIMEOUT"
    ELSE IF kind = "Network" THEN "NETWORK_ERROR"
    ELSE IF kind = "NoData" THEN "NO_DATA"
    ELSE "UNKNOWN"

\* Every source asked in a finished historical request failed.
Exhausted ==
    /\ pc = "done"
    /\ Mode = "historical"
    /\ trace # <<>>
    /\ \A i \in 1..Len(trace) : IsCall(trace[i]) => ~trace[i].ok
    /\ \E i \in 1..Len(trace) : IsCall(trace[i])

\* C3: when every provider of the priority list has failed, the failure the
\* process reports carries the kind that comes first among the providers'
\* failures in the order AuthInvalid > RateLimited > Timeout > Network >
\* NoData > Unknown.
C3_ExhaustionPrecedence ==
    Exhausted =>
        /\ Stdout.kind = "error"
        /\ Stdout.error_code = ErrorCode(HighestKind)

\* C4: in a finished batch in which one symbol has a result and another has
\* none, the reported result set has an item for every requested symbol: the
\* quote of the one and a failure item of the other.
C4_BatchPartialSuccess ==
    (/\ pc = "done"
     /\ Mode = "quote"
     /\ Len(symbols) >= 2
     /\ \E a, b \in 1..Len(symbols) :
            IsSome(ResultOf(symbols[a])) /\ IsNone(ResultOf(symbols[b])))
    => /\ Stdout.kind = "json"
       /\ \A n \in 1..Len(symbols) :
              \E k \in 1..Len(Stdout.data) : Stdout.data[k].symbol = symbols[n]

-----------------------------------------------------------------------------
(* The cache on its own: set_cache and get_cached at chosen instants *)

MaxPuts == 2

\* The instants of time.time(): the start and 1, 299, 300, 301 and 600
\* seconds later.
Instants ==
    {StartTime + k : k \in {0, 1, CACHE_DURATION_SECONDS - 1, CACHE_DURATION_SECONDS,
                            CACHE_DURATION_SECONDS + 1, 2 * CACHE_DURATION_SECONDS}}

\* The quotes stored: two prices, so that an overwrite shows.
PutResults ==
    {[symbol |-> t, price |-> Price(u), previousClose |-> Price(49), timestamp |-> 7] :
        t \in FlowSymbols, u \in {50, 51}}

PutEvent(symbol, result, at) ==
    [ev |-> "set_cache", symbol |-> symbol, at |-> at, result |-> result]

CacheInit ==
    /\ adapter = "cache" /\ in_symbol = <<>> /\ in_resp = None /\ out = None
    /\ YFINANCE_AVAILABLE = TRUE /\ FMP_API_KEY = "key"
    /\ TWELVE_DATA_API_KEY = "key" /\ CONFIG = NoConfig
    /\ now = StartTime /\ dst = TRUE /\ tz = "zoneinfo"
    /\ args = None /\ pc = "cache" /\ symbols = <<>> /\ idx = 0
    /\ results = EmptyDict /\ symbols_to_fetch = <<>> /\ batch_results = EmptyDict
    /\ valid_sources = <<>> /\ last_error = None /\ main_historical_data = None
    /\ trace = <<>> /\ output = None
    /\ cache_file = AbsentFile
    /\ cache = Get(load_cache(cache_file).val)

cacheFrame ==
    <<configVars, dst, tz, adapter, in_symbol, in_resp, args, pc, symbols, idx,
      results, symbols_to_fetch, batch_results, valid_sources, last_error,
      main_historical_data, output>>

\* set_cache(symbol, result) at the present instant.
CachePut ==
    /\ pc = "cache"
    /\ Len(trace) < MaxPuts
    /\ \E result \in PutResults :
        /\ cache' = set_cache(cache, result.symbol, result, now)
        /\ cache_file' = save_cache(cache_file, cache').val
        /\ trace' = Append(trace, PutEvent(result.symbol, result, now))
    /\ out' = None
    /\ UNCHANGED <<cacheFrame, now>>

\* get_cached(symbol) at the present instant; out keeps what it returned.
CacheGet ==
    /\ pc = "cache"
    /\ \E symbol \in FlowSymbols :
        out' = Some([symbol |-> symbol, at |-> now,
                     returned |-> get_cached(cache, symbol, now)])
    /\ UNCHANGED <<cacheFrame, now, cache, cache_file, trace>>

\* Time passes to a later instant.
CacheTick ==
    /\ pc = "cache"
    /\ \E later \in Instants : later > now /\ now' = later
    /\ out' = None
    /\ UNCHANGED <<cacheFrame, cache, cache_file, trace>>

CacheNext == CachePut \/ CacheGet \/ CacheTick

SpecCache == CacheInit /\ [][CacheNext]_vars

\* The set_cache events of the symbol.
PutsOf(symbol) == {i \in 1..Len(trace) : trace[i].symbol = symbol}
LastPut(symbol) == trace[CHOOSE i \in PutsOf(symbol) : \A j \in PutsOf(symbol) : j <= i]

\* C11: get_cached(symbol) at time "at" returns exactly the result of the
\* latest set_cache(symbol, result), made at time t, when at - t < 300, and
\* None when at - t >= 300 (at - t = 300 included) and when the symbol was
\* never put.
C11_CacheRoundTrip ==
    IsSome(out) =>
        LET got == Get(out) IN
        IF PutsOf(got.symbol) = {} THEN got.returned = Ret(None)
        ELSE IF got.at - LastPut(got.symbol).at < 300
             THEN got.returned = Ret(Some(LastPut(got.symbol).result))
             ELSE got.returned = Ret(None)

\* A get exactly 300 seconds after the put of the symbol.
C11_Witness ==
    /\ IsSome(out)
    /\ PutsOf(Get(out).symbol) # {}
    /\ Get(out).at - LastPut(Get(out).symbol).at = 300
    /\ Get(out).returned = Ret(None)

\* stdout holds a result or a structured failure.
ResultOrFailure == Stdout.kind \in {"line", "json", "error"}

\* C23: every run of main() ends with a complete result or a structured
\* failure on stdout, whatever the cache file holds and whatever the providers
\* answer; no exception leaves main() unhandled.
C23_NeverBareCrash == pc = "done" => (IsSome(output) /\ ResultOrFailure)

\* The step stores an entry under the key, new or other than the one before.
EntryWritten(k) ==
    /\ cache'.type = "dict"
    /\ k \in DOMAIN cache'.items
    /\ ~(cache.type = "dict" /\ k \in DOMAIN cache.items
                             /\ cache.items[k] = cache'.items[k])

\* A Quote object: a dict with symbol, price, previousClose and timestamp.
IsQuoteObject(res) ==
    IsDict(res) /\ {"symbol", "price", "previousClose", "timestamp"} \subseteq DOMAIN res

EntriesWrittenAreQuotes ==
    \A k \in (IF cache'.type = "dict" THEN DOMAIN cache'.items ELSE {}) :
        EntryWritten(k) =>
            /\ k = Upper(k)
            /\ DOMAIN cache'.items[k] = {"timestamp", "result"}
            /\ IsQuoteObject(cache'.items[k].result)

\* C25: every cache entry a run writes, on the batch path and on the
\* per-symbol retry path, is keyed by the uppercased symbol and holds a
\* timestamp and a result that is a Quote object (symbol, price,
\* previousClose, timestamp).
C25_EntriesAreQuoteObjects == [][EntriesWrittenAreQuotes]_vars

\* C28: in one real-time request no provider is invoked twice for the same
\* symbol, through the batch pass and the per-symbol retry pass together.
C28_ProviderOncePerSymbol ==
    Mode = "quote" =>
        \A i, j \in 1..Len(trace) :
            (i < j /\ IsCall(trace[i]) /\ IsCall(trace[j])
                   /\ trace[i].symbol = trace[j].symbol) =>
                trace[i].provider # trace[j].provider

\* The run obtained a result for the symbol: get_cached saw a fresh entry of
\* it, or a provider delivered a quote of it.
Obtained(s) ==
    \E i \in 1..Len(trace) :
        /\ IsLookup(trace[i]) \/ IsCall(trace[i])
        /\ trace[i].symbol = s
        /\ FreshLookup(trace[i]) \/ (IsCall(trace[i]) /\ trace[i].ok)

\* The output holds the symbol's quote.
InOutput(s) ==
    \/ Stdout.kind = "line" /\ Stdout.symbol = s
    \/ Stdout.kind = "json" /\ \E k \in 1..Len(Stdout.data) : Stdout.data[k].symbol = s

\* C29: a real-time run that main() ends with its own output reports every
\* symbol for which a result was obtained, from the cache or from a provider,
\* whatever happened while another symbol, or this one, was fetched or
\* stored.
C29_ObtainedResultsReported ==
    (Mode = "quote" /\ pc = "done" /\ IsSome(output) /\ Stdout.kind # "traceback") =>
        \A n \in 1..Len(symbols) : Obtained(symbols[n]) => InOutput(symbols[n])

IsSleep(e) == e.ev = "sleep"

\* Two invocations of one provider for different symbols with no invocation
\* of that provider between them.
ConsecutiveCalls(i, j) ==
    /\ i < j
    /\ IsCall(trace[i]) /\ IsCall(trace[j])
    /\ trace[i].provider = trace[j].provider
    /\ trace[i].symbol # trace[j].symbol
    /\ \A k \in (i + 1)..(j - 1) :
           IsCall(trace[k]) => trace[k].provider # trace[i].provider

\* C30: in a real-time request there is a sleep between any two consecutive
\* invocations of the same provider for different symbols, in the batch pass
\* (also when a fetch raised) and in the retry pass, and every sleep follows
\* the return of a fetch, never a symbol answered from the cache.
C30_DelayBetweenProviderCalls ==
    Mode = "quote" =>
        /\ \A i, j \in 1..Len(trace) :
               ConsecutiveCalls(i, j) => \E k \in (i + 1)..(j - 1) : IsSleep(trace[k])
        /\ \A k \in 1..Len(trace) :
               IsSleep(trace[k]) => (k > 1 /\ trace[k - 1].ev = "return")

\* The four built-in providers in their fallback order.
BuiltIn == <<S_YFINANCE, S_FMP, S_TWELVEDATA, S_STOOQ>>

Range(seq) == {seq[k] : k \in 1..Len(seq)}

FirstIndex(seq, x) == CHOOSE k \in 1..Len(seq) : seq[k] = x /\ \A j \in 1..(k - 1) : seq[j] # x

\* The loop of fetch_historical_data is running or has run.
ListBuilt == Mode = "historical" /\ pc \in {"hist_loop", "output"}

\* C14: the effective priority list of a historical request is never empty,
\* has no two entries equal up to case, starts with the configured providers
\* in their configured order, continues with the built-in providers that were
\* not configured, and so holds each of yfinance, fmp, twelvedata, stooq
\* exactly once.
C14_PriorityListWellFormed ==
    ListBuilt =>
        LET configured == [k \in DOMAIN get_fetch_priority(symbols[1]) |->
                               Lower(get_fetch_priority(symbols[1])[k])]
            n == Cardinality(Range(configured))
        IN  /\ valid_sources # <<>>
            /\ \A i, j \in 1..Len(valid_sources) :
                   i # j => Lower(valid_sources[i]) # Lower(valid_sources[j])
            /\ n <= Len(valid_sources)
            /\ {valid_sources[k] : k \in 1..n} = Range(configured)
            /\ \A i, j \in 1..n :
                   i < j => FirstIndex(configured, valid_sources[i])
                                < FirstIndex(configured, valid_sources[j])
            /\ {valid_sources[k] : k \in (n + 1)..Len(valid_sources)}
                   = Range(BuiltIn) \ Range(configured)
            /\ \A b \in Range(BuiltIn) :
                   Cardinality({k \in 1..Len(valid_sources) : valid_sources[k] = b}) = 1

\* A historical request whose configured list names FMP twice (in two
\* spellings) after stooq: the list built is stooq, fmp, yfinance, twelvedata.
C14_Witness ==
    /\ ListBuilt
    /\ Len(get_fetch_priority(symbols[1])) = 3
    /\ valid_sources = <<S_STOOQ, S_FMP, S_YFINANCE, S_TWELVEDATA>>

\* C15: without a usable DATA_SOURCE_PRIORITY (no configuration, key absent,
\* value neither list nor string) a historical request asks the providers in
\* the order yfinance, fmp, twelvedata, stooq and ends with a series or a
\* structured failure.
C15_DefaultOrder ==
    (Mode = "historical" /\ CONFIG \in {NoConfig, [DATA_SOURCE_PRIORITY |-> Some(OtherValue)]}) =>
        /\ ListBuilt => valid_sources = BuiltIn
        /\ \A i, j \in 1..Len(trace) :
               (i < j /\ IsCall(trace[i]) /\ IsCall(trace[j])) =>
                   \E a, b \in 1..Len(BuiltIn) :
                       /\ a < b
                       /\ trace[i].provider = ProviderName(BuiltIn[a])
                       /\ trace[j].provider = ProviderName(BuiltIn[b])
        /\ pc = "done" => ResultOrFailure

\* A finished historical request without configured priority in which all four
\* providers were asked, yfinance first and stooq last.
C15_Witness ==
    /\ pc = "done"
    /\ Mode = "historical"
    /\ CONFIG = NoConfig
    /\ Len(trace) = 5
    /\ trace[1].provider = "yfinance"
    /\ trace[2].provider = "fmp"
    /\ trace[3].provider = "twelvedata"
    /\ trace[4].provider = "stooq"

\* The providers of the call events of the trace, in order.
CallsOf(tr) ==
    LET calls == SelectSeq(tr, IsCall)
    IN  [k \in DOMAIN calls |-> calls[k].provider]

\* The sources of the list for which the loop invokes an adapter.
Attemptable == SelectSeq(valid_sources, Invokes)

IsPrefix(a, b) == Len(a) <= Len(b) /\ \A k \in 1..Len(a) : a[k] = b[k]

\* C16: in fetch_historical_data a provider that fails in whatever way (no
\* rows, no API key, HTTP 401/403/429, connection error, timeout, an exception
\* while parsing, a name the loop does not know) does not end the loop: the
\* providers are asked in list order, and the failure (None) is returned only
\* when every provider of the list has been attempted.
C16_FailuresAreProviderLocal ==
    ListBuilt =>
        /\ IsPrefix(CallsOf(trace),
                    [k \in DOMAIN Attemptable |-> ProviderName(Attemptable[k])])
        /\ \A i \in 1..Len(trace) :
               (IsCall(trace[i]) /\ ~trace[i].ok /\ i < Len(trace)) =>
                   \/ IsCall(trace[i + 1])
                   \/ /\ trace[i + 1] = ReturnEvent(symbols[1], Ret(None))
                      /\ Len(CallsOf(trace)) = Len(Attemptable)
        /\ (pc = "output" /\ IsNone(main_historical_data)) =>
               Len(CallsOf(trace)) = Len(Attemptable)

\* A historical request that came back with nothing after a source raised,
\* a source answered HTTP 429 and an unknown name was passed over, with every
\* attemptable source asked.
C16_Witness ==
    /\ ListBuilt
    /\ pc = "output"
    /\ IsNone(main_historical_data)
    /\ \E k \in 1..Len(valid_sources) : ProviderName(valid_sources[k]) = "unknown"
    /\ \E i \in 1..Len(trace) : IsCall(trace[i]) /\ Raised(trace[i].result)
    /\ \E i \in 1..Len(trace) : IsCall(trace[i]) /\ trace[i].answer = "http429"
    /\ Len(CallsOf(trace)) = Len(Attemptable)

\* C17: real-time quotes follow the configured priority too: with FMP
\* configured ahead of yfinance, the first provider asked for a symbol's quote
\* is FMP.
C17_QuotesFollowPriority ==
    (Mode = "quote" /\ CONFIG = FmpFirstConfig) =>
        \A i \in 1..Len(trace) :
            (/\ IsCall(trace[i])
             /\ \A j \in 1..(i - 1) :
                    IsCall(trace[j]) => trace[j].symbol # trace[i].symbol)
                => trace[i].provider = "fmp"

\* The request lacks what its mode requires.
InvalidArgs ==
    /\ IsSome(args)
    /\ \/ Mode \in {"quote", "ohlc"} /\ Get(args).symbols = <<>>
       \/ /\ Mode = "historical"
          /\ \/ Get(args).symbols = <<>>
             \/ IsNone(Get(args).start_date)
             \/ IsNone(Get(args).end_date)

\* The only step of main() on an invalid request: the structured failure,
\* status 1, nothing asked, nothing looked up, nothing stored.
InvalidStep ==
    InvalidArgs =>
        /\ pc = "start" /\ pc' = "done"
        /\ output' = Exit(ErrorObject("INVALID_REQUEST", None), 1)
        /\ trace' = <<>>
        /\ cache' = cache
        /\ cache_file' = cache_file

\* C18: a request without a symbol (real-time, OHLC) or without symbol, start
\* date or end date (historical) is answered at once with INVALID_REQUEST; no
\* provider is asked and the cache is neither looked up nor written.
C18_InvalidRequestImmediate == [][InvalidStep]_vars

\* A historical request with a symbol and a start date but no end date,
\* answered with INVALID_REQUEST while the cache holds an entry for the symbol.
C18_Witness ==
    /\ pc = "done"
    /\ Mode = "historical"
    /\ Get(args).symbols # <<>>
    /\ IsNone(Get(args).end_date)
    /\ Stdout = ErrorObject("INVALID_REQUEST", None)
    /\ Get(output).status = 1
    /\ trace = <<>>
    /\ cache.type = "dict"
    /\ Get(args).symbols[1] \in DOMAIN cache.items

\* A step of a historical or OHLC request neither looks up nor changes the
\* cache.
CacheUntouched ==
    Mode \in {"historical", "ohlc"} =>
        /\ cache' = cache
        /\ cache_file' = cache_file
        /\ \A i \in 1..Len(trace') : ~IsLookup(trace'[i])

\* C13: a historical or OHLC request never evaluates get_cached and leaves the
\* in-memory cache and the cache file as they were; only real-time quotes
\* consult and write the cache.
C13_CacheOnlyForQuotes == [][CacheUntouched]_vars

\* A finished historical request that delivered a series from a provider
\* while the cache held an entry younger than the TTL for the same symbol.
C13_Witness ==
    /\ pc = "done"
    /\ Mode = "historical"
    /\ Stdout.kind = "json"
    /\ \E i \in 1..Len(trace) : IsCall(trace[i]) /\ trace[i].ok
    /\ cache.type = "dict"
    /\ symbols[1] \in DOMAIN cache.items
    /\ IsDictEntry(cache.items[symbols[1]])
    /\ now - cache.items[symbols[1]].timestamp < CACHE_DURATION_SECONDS

\* fetch_batch has returned to main().
BatchReturned ==
    /\ Mode = "quote"
    /\ symbols_to_fetch # <<>>
    /\ pc = "main_retry" \/ pc = "output"

\* fetch_batch_ohlc has returned to main().
OhlcBatchReturned ==
    /\ Mode = "ohlc"
    /\ Get(args).batch_ohlc /\ Len(symbols) > 1
    /\ pc = "output"

\* The get_cached evaluations and the returns of an orchestrator so far.
Lookups == SelectSeq(trace, IsLookup)
Returns == SelectSeq(trace, LAMBDA e : e.ev = "return")

\* C34: when fetch_batch returns, its result has an entry, a quote or None,
\* for every symbol of its input and for nothing else, and its loop has made
\* one pass for each symbol of the input in order (each pass begins with
\* get_cached), whatever the passes before it ended in; when fetch_batch_ohlc
\* returns, its result has an entry for every symbol and fetch_ohlc_data has
\* returned once for each symbol in order.
C34_BatchProcessesEverySymbol ==
    /\ BatchReturned =>
          /\ DOMAIN batch_results = Range(symbols_to_fetch)
          /\ \A s \in DOMAIN batch_results :
                 IsSome(batch_results[s]) =>
                     \/ IsQuoteObject(Get(batch_results[s]))
                     \/ \E i \in 1..Len(trace) :
                            /\ FreshLookup(trace[i])
                            /\ Get(trace[i].entry).result = Get(batch_results[s])
          /\ Len(Lookups) = Len(symbols) + Len(symbols_to_fetch)
          /\ \A k \in 1..Len(symbols_to_fetch) :
                 Lookups[Len(symbols) + k].symbol = symbols_to_fetch[k]
    /\ OhlcBatchReturned =>
          /\ DOMAIN results = Range(symbols)
          /\ Len(Returns) = Len(symbols)
          /\ \A k \in 1..Len(symbols) : Returns[k].symbol = symbols[k]

\* fetch_batch returned after a first pass that ended in its except clause
\* (FMP's HTTP error re-raised, or the cache file refusing the write) and a
\* later pass that delivered a quote.
C34_Witness ==
    /\ BatchReturned
    /\ Len(symbols_to_fetch) = 2
    /\ symbols_to_fetch[1] # symbols_to_fetch[2]
    /\ IsNone(batch_results[symbols_to_fetch[1]])
    /\ \E i \in 1..Len(trace) :
          /\ IsCall(trace[i]) /\ trace[i].symbol = symbols_to_fetch[1]
          /\ Raised(trace[i].result)
    /\ IsSome(batch_results[symbols_to_fetch[2]])
    /\ \E i \in 1..Len(trace) :
          /\ IsCall(trace[i]) /\ trace[i].symbol = symbols_to_fetch[2]
          /\ trace[i].ok

\* The entry the dict holds under the key, and the one the file holds.
MemEntry(c, k) ==
    IF c.type = "dict" /\ k \in DOMAIN c.items THEN Some(c.items[k]) ELSE None
FileEntry(f, k) ==
    IF f.kind \in {"json", "readonly"} /\ f.value.type = "dict"
       /\ k \in DOMAIN f.value.items
    THEN Some(f.value.items[k]) ELSE None

\* The step invoked a provider for the symbol and the provider delivered.
DeliveredInStep(k) ==
    {i \in (Len(trace) + 1)..Len(trace') :
        IsCall(trace'[i]) /\ trace'[i].ok /\ trace'[i].symbol = k}

\* What set_cache makes of a delivered quote at time "at": the entry of
\* fetch_batch, or the entry of main()'s retry, which holds fetch_single's
\* tuple.
StoredFor(quote, at) == {Entry(at, quote), Entry(at, SingleTuple(quote))}

\* A step changes the entry of a symbol, in the dict or in the file, only
\* when it fetched the symbol successfully, and then to an entry made of the
\* delivered quote and the time of the call.
EntriesChangeByFetchOnly ==
    \A k \in FlowSymbols :
        (\/ MemEntry(cache', k) # MemEntry(cache, k)
         \/ FileEntry(cache_file', k) # FileEntry(cache_file, k)) =>
            \E i \in DeliveredInStep(k) :
                LET made == StoredFor(Get(trace'[i].result.val), now) IN
                /\ MemEntry(cache', k) \in {Some(e) : e \in made}
                /\ FileEntry(cache_file', k) \in
                       {FileEntry(cache_file, k)}
                       \cup {Some(json_dump_entry(e)) : e \in made}

\* C35: an entry of the cache, in memory or in the file, is created or
\* replaced only by a successful fetch of its symbol, and holds the fetched
\* result and the time of the fetch; a step in which the providers fail for a
\* symbol, or in which another symbol is stored, leaves the symbol's entry as
\* it was.
C35_OnlySuccessfulFetchStores == [][EntriesChangeByFetchOnly]_vars

\* A finished run that found an expired entry of AAPL, got nothing for AAPL
\* from the providers, fetched and stored AV.L, and leaves AAPL's expired
\* entry in the dict and in the rewritten file.
C35_Witness ==
    /\ pc = "done" /\ Mode = "quote"
    /\ \E i \in 1..Len(trace) :
          /\ IsLookup(trace[i]) /\ trace[i].symbol = AAPL
          /\ IsSome(trace[i].entry) /\ ~FreshLookup(trace[i])
          /\ MemEntry(cache, AAPL) = trace[i].entry
          /\ FileEntry(cache_file, AAPL) = trace[i].entry
    /\ \E i \in 1..Len(trace) : IsCall(trace[i]) /\ trace[i].symbol = AAPL
    /\ \A i \in 1..Len(trace) :
          (IsCall(trace[i]) /\ trace[i].symbol = AAPL) => ~trace[i].ok
    /\ \E i \in 1..Len(trace) :
          IsCall(trace[i]) /\ trace[i].symbol = AV_L /\ trace[i].ok
    /\ IsSome(FileEntry(cache_file, AV_L))
    /\ Get(FileEntry(cache_file, AV_L)).timestamp >= StartTime

\* The keys of the cache: none when the loaded value is no dict.
CacheKeys(c) == IF c.type = "dict" THEN DOMAIN c.items ELSE {}

\* A step evicts nothing: the dict keeps its keys, an entry stays as it is
\* unless the step fetched its symbol, a step without a delivered fetch
\* touches neither the dict nor the file, and a file the step rewrote is the
\* dump of the whole dict.
NothingEvicted ==
    /\ cache'.type = cache.type
    /\ CacheKeys(cache) \subseteq CacheKeys(cache')
    /\ \A k \in CacheKeys(cache) :
          DeliveredInStep(k) = {} => cache'.items[k] = cache.items[k]
    /\ (\A k \in FlowSymbols : DeliveredInStep(k) = {}) =>
          cache' = cache /\ cache_file' = cache_file
    /\ cache_file' # cache_file =>
          /\ save_cache(cache_file, cache') = Ret(cache_file')
          /\ cache'.type = "dict"
          /\ CacheKeys(cache) \subseteq DOMAIN cache_file'.value.items

\* C36: within a process no entry is evicted: looking an entry up changes
\* neither the dict nor the file, an expired entry stays until a successful
\* fetch of its symbol replaces it, the keys of the dict never get fewer, and
\* every rewrite of the file carries all entries of the dict.
C36_NeverEvicted == [][NothingEvicted]_vars

\* A finished run for AV.L alone that stored AV.L's quote and rewrote a
\* file in which AAPL's entry, expired when the run began, is still there.
C36_Witness ==
    /\ pc = "done" /\ Mode = "quote"
    /\ \A i \in 1..Len(trace) :
          (IsCall(trace[i]) \/ IsLookup(trace[i])) => trace[i].symbol = AV_L
    /\ MemEntry(cache, AAPL) = Some(CachedQuote(AAPL, CACHE_DURATION_SECONDS))
    /\ FileEntry(cache_file, AAPL) = Some(CachedQuote(AAPL, CACHE_DURATION_SECONDS))
    /\ IsSome(FileEntry(cache_file, AV_L))
    /\ Get(FileEntry(cache_file, AV_L)).timestamp >= StartTime

\* The provider needs an API key and none is configured.
KeyMissing(provider) ==
    \/ provider = "fmp" /\ FMP_API_KEY = ""
    \/ provider = "twelvedata" /\ TWELVE_DATA_API_KEY = ""

\* Without its key an adapter comes back with its empty result whatever the
\* upstream would answer: it issues no request.
NoRequestWithoutKey ==
    /\ FMP_API_KEY = "" =>
          \A s \in FlowSymbols :
              /\ \A up \in FlowFmpQuotes :
                     fetch_real_time_quote_fmp(s, up, now) = Ret(None)
              /\ \A up \in HistAnswers(S_FMP) :
                     fetch_historical_data_fmp(s, up) = Ret(Some(<<>>))
    /\ TWELVE_DATA_API_KEY = "" =>
          \A s \in FlowSymbols :
              \A up \in HistAnswers(S_TWELVEDATA) :
                  fetch_historical_data_twelvedata(s, up) = Ret(None)

\* After the i-th event, the invocation of a provider that failed, the
\* orchestrator goes on: to another provider for the same symbol or, when no
\* source is left, to its return without a result.
MovesOn(i) ==
    IF i = Len(trace) THEN pc = "hist_loop"
    ELSE LET next == trace[i + 1] IN
         /\ next.symbol = trace[i].symbol
         /\ \/ IsCall(next) /\ next.provider # trace[i].provider
            \/ /\ next.ev = "return"
               /\ next.result \in {Ret(None), trace[i].result}
               /\ Mode = "historical" =>
                     \A k \in 1..Len(valid_sources) :
                         ProviderName(valid_sources[k]) = trace[i].provider =>
                             \A j \in (k + 1)..Len(valid_sources) :
                                 ~Invokes(valid_sources[j])

\* C38: a provider whose API key is missing issues no request, to FMP for a
\* quote or a history or to Twelve Data: its adapter returns its empty result
\* whatever the upstream would answer, the invocation counts as failed, and
\* the orchestrator goes on to the next provider or, after the last, returns
\* without a result.
C38_MissingKeySkipsProvider ==
    /\ NoRequestWithoutKey
    /\ \A i \in 1..Len(trace) :
          (IsCall(trace[i]) /\ KeyMissing(trace[i].provider)) =>
              /\ trace[i].answer = "nokey"
              /\ ~trace[i].ok
              /\ trace[i].result \in {Ret(None), Ret(Some(<<>>))}
              /\ MovesOn(i)

\* A historical run without either key in which FMP and Twelve Data were
\* invoked and skipped and Stooq, invoked after them, delivered.
C38_Witness ==
    /\ Mode = "historical" /\ pc = "done"
    /\ FMP_API_KEY = "" /\ TWELVE_DATA_API_KEY = ""
    /\ \E i, j, k \in 1..Len(trace) :
          /\ i < k /\ j < k
          /\ IsCall(trace[i]) /\ trace[i].provider = "fmp"
          /\ IsCall(trace[j]) /\ trace[j].provider = "twelvedata"
          /\ IsCall(trace[k]) /\ trace[k].provider = "stooq" /\ trace[k].ok

\* The invocations of a provider in the trace.
InvocationsOf(provider) ==
    {i \in 1..Len(trace) : IsCall(trace[i]) /\ trace[i].provider = provider}

Providers == {"yfinance", "fmp", "twelvedata", "stooq"}

\* What a request has asked of its upstreams so far stays within bounds: an
\* invocation makes at most 2 attempts on yfinance's history and at most 1
\* on anything else; a historical request invokes each provider of its list
\* at most once; a real-time request invokes a provider for a symbol at most
\* once in fetch_batch and once in the retry, for each time the symbol is on
\* the command line.
AttemptsBounded ==
    /\ \A i \in 1..Len(trace) :
          IsCall(trace[i]) =>
              trace[i].attempts <=
                  (IF Mode = "historical" /\ trace[i].provider = "yfinance"
                   THEN 2 ELSE 1)
    /\ Mode = "historical" =>
          /\ \A p \in Providers : Cardinality(InvocationsOf(p)) <= 1
          /\ \A i \in 1..Len(trace) :
                IsCall(trace[i]) =>
                    \E k \in 1..Len(valid_sources) :
                        ProviderName(valid_sources[k]) = trace[i].provider
    /\ Mode # "historical" =>
          \A p \in Providers :
              Cardinality(InvocationsOf(p)) <= 2 * Len(symbols)

\* The process with every step it can take eventually taken: an upstream
\* call returns or times out, and nothing else in the program waits.
\* The cache files of the requests followed to their end: none, one whose
\* AAPL entry has not expired, one with a scalar for an entry, a list, one
\* that cannot be written; the historical and OHLC requests, which do not
\* look at the cache, start without a file.
TerminatingFiles ==
    {AbsentFile, JsonFile(ListCache), ReadOnlyFile(DictValue(EmptyDict)),
     JsonFile(DictValue(Put(EmptyDict, AAPL, ScalarEntry(TRUE)))),
     JsonFile(DictValue(Put(EmptyDict, AAPL,
                            CachedQuote(AAPL, CACHE_DURATION_SECONDS - 1))))}

\* The symbols on their command lines: none, one, one twice, two.
TerminatingSymbols ==
    {<<>>, <<AAPL>>, <<AV_L>>, <<AAPL, AAPL>>, <<AAPL, AV_L>>}

TerminatingInit ==
    /\ AdapterIdle
    /\ now = StartTime /\ dst = TRUE /\ tz = "zoneinfo"
    /\ pc = "start"
    /\ MainIdle
    /\ Environment(TerminatingFiles, {AbsentFile})
    /\ Get(args).symbols \in TerminatingSymbols
    /\ cache = Get(load_cache(cache_file).val)

SpecTerminating == TerminatingInit /\ [][Next]_vars /\ WF_vars(Next)

\* C39: every request ends, and until it does the attempts it has made on
\* its upstreams are bounded: at most 2 on yfinance's history, at most 1 on
\* each other provider of the effective priority list of a historical
\* request, and no provider is invoked again and again.
C39_TerminatesWithBoundedAttempts == [](AttemptsBounded) /\ <>(pc = "done")

\* A finished historical request in which yfinance was tried twice and
\* every other provider once, and none delivered.
C39_Witness ==
    /\ Mode = "historical" /\ pc = "done"
    /\ main_historical_data = None
    /\ \A p \in Providers : Cardinality(InvocationsOf(p)) = 1
    /\ \A i \in 1..Len(trace) :
          IsCall(trace[i]) =>
              trace[i].attempts = (IF trace[i].provider = "yfinance" THEN 2 ELSE 1)

\* The j-th event is an invocation made by fetch_batch: it follows the
\* get_cached of its pass with nothing but invocations between.
BatchCall(j) ==
    /\ IsCall(trace[j])
    /\ \E l \in 1..(j - 1) :
          /\ IsLookup(trace[l]) /\ trace[l].symbol = trace[j].symbol
          /\ \A k \in (l + 1)..(j - 1) : IsCall(trace[k])

\* C32: after a provider failed with AuthInvalid (HTTP 401 or 403, no API
\* key) for one symbol of a batch, fetch_batch does not invoke that provider
\* for another symbol of the batch.
C32_AuthInvalidStopsProvider ==
    Mode = "quote" =>
        \A i, j \in 1..Len(trace) :
            (/\ i < j
             /\ BatchCall(i) /\ BatchCall(j)
             /\ ~trace[i].ok /\ FailureKind(trace[i]) = "AuthInvalid"
             /\ trace[j].symbol # trace[i].symbol) =>
                trace[j].provider # trace[i].provider

-----------------------------------------------------------------------------
(* Properties of the process from its start *)

\* Cache files that are unreadable or hold no dict of dicts.
CorruptFiles ==
    {UnreadableFile, InvalidJsonFile, JsonFile(ListCache),
     JsonFile(DictValue(Put(EmptyDict, AAPL, ScalarEntry(TRUE))))}

\* C12: with a cache file that cannot be read, is no JSON, is JSON but no
\* object, or has an entry that is no object, the process still ends with a
\* result or a structured failure.
C12_CorruptCacheDegrades ==
    (pc = "done" /\ cache_file \in CorruptFiles) => ResultOrFailure

-----------------------------------------------------------------------------
(* The symbol mappings applied to raw tickers *)

MaxStem == 2
MaxSuffix == 4

\* Plain tickers: letters only.
Stems == SeqsUpTo({"A", "V"}, MaxStem) \ {<<>>}

\* What follows the plain ticker: nothing, ".L", ".LON" and every other string
\* over the characters of those suffixes.
Suffixes == SeqsUpTo({".", "L", "O", "N"}, MaxSuffix)

\* A spelling that alternates lower and upper case.
Mixed(s) == [i \in 1..Len(s) |-> IF i % 2 = 1 THEN LowerChar(s[i]) ELSE UpperChar(s[i])]

\* A ticker as a caller may spell it: upper, lower and mixed case.
Spellings(s) == {s, Lower(s), Mixed(s)}

SymbolInit ==
    /\ adapter \in {"symbol_fmp", "symbol_twelvedata", "symbol_stooq"}
    /\ \E t \in Stems, x \in Suffixes : in_symbol \in Spellings(t \o x)
    /\ in_resp = None /\ out = None
    /\ YFINANCE_AVAILABLE = TRUE /\ FMP_API_KEY = "key"
    /\ TWELVE_DATA_API_KEY = "key" /\ CONFIG = NoConfig
    /\ now = 0 /\ dst = FALSE /\ tz = "zoneinfo"
    /\ FlowIdle

ApplyLseSymbol == Apply("symbol_fmp", handle_lse_symbol(in_symbol))

ApplyTwelvedataSymbol == Apply("symbol_twelvedata", handle_twelvedata_symbol(in_symbol))

ApplyStooqSymbol == Apply("symbol_stooq", handle_stooq_symbol(in_symbol))

SymbolNext == ApplyLseSymbol \/ ApplyTwelvedataSymbol \/ ApplyStooqSymbol

SpecSymbol == SymbolInit /\ [][SymbolNext]_vars

\* The mapping of the provider at hand.
Mapping(s) ==
    IF adapter = "symbol_fmp" THEN handle_lse_symbol(s)
    ELSE IF adapter = "symbol_twelvedata" THEN handle_twelvedata_symbol(s)
    ELSE handle_stooq_symbol(s)

\* C19: each provider mapping (FMP, Twelve Data, Stooq) gives for a raw ticker
\* what it gives for the ticker in lower case and in upper case, and the FMP
\* mapping applied to its own result returns that result.
C19_NormalizationCaseInsensitiveIdempotent ==
    IsSome(out) =>
        /\ Get(out) = Mapping(Lower(in_symbol))
        /\ Get(out) = Mapping(Upper(in_symbol))
        /\ adapter = "symbol_fmp" => handle_lse_symbol(Get(out)) = Get(out)

\* "Av.lOn" spelled in mixed case has been mapped for FMP, to AV.L.
C19_Witness ==
    /\ adapter = "symbol_fmp"
    /\ in_symbol = Mixed(AV_LON)
    /\ in_symbol # Upper(in_symbol) /\ in_symbol # Lower(in_symbol)
    /\ out = Some(AV_L)

\* The raw ticker is the plain ticker T followed by the suffix.
HasSuffix(T, suffix) == Upper(in_symbol) = T \o suffix

\* C20: a plain ticker T followed by ".LON" or ".L" maps to T.L for FMP and
\* to the pair (T, LSE) for Twelve Data, every character of T kept.
C20_LondonSuffixForms ==
    \A T \in Stems :
        (IsSome(out) /\ (HasSuffix(T, DOT_LON) \/ HasSuffix(T, DOT_L))) =>
            /\ adapter = "symbol_fmp" => Get(out) = T \o DOT_L
            /\ adapter = "symbol_twelvedata" => Get(out) = <<T, Some("LSE")>>


-----------------------------------------------------------------------------
(* Several runs of the script sharing ~/.stockbar_cache.json *)

\* Each process runs python get_stock_data.py SYMBOL: pc, symbols, idx,
\* cache, results and batch_results hold, for each process, where it stands,
\* its symbol, the number of its run, its dict, what it returned and what
\* fetch_batch got. The file and the clock are shared.

\* The processes that run at the same time, MaxRuns runs of the script in
\* all, and the instants the clock shows: the start and 300 seconds after it.
Procs == {"p1", "p2"}
MaxRuns == 3
RaceInstants == {StartTime, StartTime + CACHE_DURATION_SECONDS}

\* What the providers answer to a run: yfinance a full answer or an empty
\* one, FMP HTTP 429.
RaceYfQuotes == {r \in FlowYfQuotes : IsSome(r.daily)}
RaceFmpQuotes == {[kind |-> "http", code |-> 429]}

\* The file right after open(CACHE_FILE, 'w'): no bytes, which is no JSON.
TruncatedFile == [kind |-> "invalid_json", length |-> 0]

\* The text json.dump(cache, f) writes.
DumpedFile(c) == save_cache(JsonFile(c), c).val

\* The trace is the set of the invocations of fetch_real_time_quote, each
\* with the process that made it, the number of that process's run and the
\* time; res is None when the providers delivered nothing.
FetchRecord(p, pass, symbol, res) ==
    [ev |-> "fetch", proc |-> p, run |-> idx[p], pass |-> pass,
     symbol |-> symbol, at |-> now, result |-> res]

\* The runs started so far, idx[p] of them by process p.
RECURSIVE RunsOf(_)
RunsOf(ps) ==
    IF ps = {} THEN 0
    ELSE LET p == CHOOSE q \in ps : TRUE IN idx[p] + RunsOf(ps \ {p})
RunsStarted == RunsOf(Procs)

\* What a finished run returned to its caller; the process has exited and
\* its dict is gone.
FromCache(res, at) == Some([from |-> "cache", result |-> res, at |-> at])
FromFetch(res) == Some([from |-> "fetch", result |-> res])

RaceInit ==
    /\ AdapterIdle
    /\ YFINANCE_AVAILABLE = TRUE /\ FMP_API_KEY = "key"
    /\ TWELVE_DATA_API_KEY = "key" /\ CONFIG = NoConfig
    /\ now = StartTime /\ dst = TRUE /\ tz = "zoneinfo"
    /\ args = None
    /\ pc = [p \in Procs |-> "idle"]
    /\ symbols = [p \in Procs |-> <<>>]
    /\ idx = [p \in Procs |-> 0]
    /\ cache = [p \in Procs |-> DictValue(EmptyDict)]
    /\ cache_file \in {AbsentFile, InvalidJsonFile}
    /\ results = [p \in Procs |-> None]
    /\ batch_results = [p \in Procs |-> None]
    /\ symbols_to_fetch = <<>> /\ valid_sources = <<>> /\ last_error = None
    /\ main_historical_data = None /\ output = None
    /\ trace = {}

raceFrame ==
    UNCHANGED <<configVars, dst, tz, adapterVars, args, symbols_to_fetch,
                valid_sources, last_error, main_historical_data, output>>

\* python get_stock_data.py SYMBOL starts: the module loads the cache file.
RaceStart(p) ==
    /\ pc[p] \in {"idle", "done"}
    /\ RunsStarted < MaxRuns
    /\ \E symbol \in FlowSymbols : symbols' = [symbols EXCEPT ![p] = symbol]
    /\ idx' = [idx EXCEPT ![p] = @ + 1]
    /\ cache' = [cache EXCEPT ![p] = Get(load_cache(cache_file).val)]
    /\ results' = [results EXCEPT ![p] = None]
    /\ batch_results' = [batch_results EXCEPT ![p] = None]
    /\ pc' = [pc EXCEPT ![p] = "check"]
    /\ UNCHANGED <<cache_file, now, trace>>
    /\ raceFrame

\* main()'s lookup: a fresh entry is the run's result.
RaceCheckCache(p) ==
    /\ pc[p] = "check"
    /\ LET cached == get_cached(cache[p], symbols[p], now).val IN
       IF IsSome(cached)
       THEN /\ results' = [results EXCEPT ![p] = FromCache(cached, now)]
            /\ pc' = [pc EXCEPT ![p] = "done"]
            /\ cache' = [cache EXCEPT ![p] = DictValue(EmptyDict)]
       ELSE /\ pc' = [pc EXCEPT ![p] = "batch"]
            /\ UNCHANGED <<results, cache>>
    /\ UNCHANGED <<cache_file, now, idx, symbols, batch_results, trace>>
    /\ raceFrame

\* fetch_batch for the symbol, up to set_cache's assignment to the dict.
RaceFetched(p, quote_data) ==
    /\ trace' = trace \cup {FetchRecord(p, "batch", symbols[p],
                                     IF TruthyQuote(quote_data)
                                     THEN quote_data.val ELSE None)}
    /\ IF TruthyQuote(quote_data)
       THEN /\ cache' = [cache EXCEPT ![p] =
                  set_cache(@, symbols[p], Get(quote_data.val), now)]
            /\ batch_results' = [batch_results EXCEPT ![p] = quote_data.val]
            /\ pc' = [pc EXCEPT ![p] = "batch_open"]
       ELSE /\ pc' = [pc EXCEPT ![p] = "retry"]
            /\ UNCHANGED <<cache, batch_results>>

RaceFetchBatch(p) ==
    /\ pc[p] = "batch"
    /\ IsNone(get_cached(cache[p], symbols[p], now).val)
    /\ \E yf_resp \in RaceYfQuotes, fmp_up \in RaceFmpQuotes :
           RaceFetched(p, fetch_real_time_quote(symbols[p], yf_resp, fmp_up,
                                                now, dst, tz).res)
    /\ UNCHANGED <<cache_file, now, idx, symbols, results>>
    /\ raceFrame

\* save_cache's open(CACHE_FILE, 'w') truncates the file.
RaceSaveOpen(p) ==
    /\ pc[p] \in {"batch_open", "single_open"}
    /\ cache_file' = TruncatedFile
    /\ pc' = [pc EXCEPT ![p] = IF pc[p] = "batch_open" THEN "batch_dump"
                                ELSE "single_dump"]
    /\ UNCHANGED <<cache, now, idx, symbols, results, batch_results, trace>>
    /\ raceFrame

\* json.dump and the close: the text reaches the file in one write at the
\* process's own offset 0. Onto bytes another process wrote meanwhile, a
\* shorter text leaves that text's tail behind it, which is no JSON. The
\* run then ends with what it fetched: results[symbol] = res in main()'s
\* loop over batch_results, or results[symbol] = single_res.
RaceSaveDump(p) ==
    /\ pc[p] \in {"batch_dump", "single_dump"}
    /\ \/ cache_file' = DumpedFile(cache[p])
       \/ /\ cache_file # TruncatedFile
          /\ cache_file' = InvalidJsonFile
    /\ pc' = [pc EXCEPT ![p] = "done"]
    /\ results' = [results EXCEPT ![p] =
           FromFetch(Some(cache[p].items[symbols[p]].result))]
    /\ cache' = [cache EXCEPT ![p] = DictValue(EmptyDict)]
    /\ UNCHANGED <<now, idx, symbols, batch_results, trace>>
    /\ raceFrame

\* "for symbol, res in batch_results.items()" up to set_cache's assignment.
RaceSingled(p, single) ==
    /\ trace' = trace \cup {FetchRecord(p, "single", symbols[p], single.res)}
    /\ IF IsSome(single.res)
       THEN /\ cache' = [cache EXCEPT ![p] =
                  set_cache(@, symbols[p], Get(single.res), now)]
            /\ pc' = [pc EXCEPT ![p] = "single_open"]
            /\ UNCHANGED results
       ELSE /\ results' = [results EXCEPT ![p] = FromFetch(None)]
            /\ pc' = [pc EXCEPT ![p] = "done"]
            /\ cache' = [cache EXCEPT ![p] = DictValue(EmptyDict)]

RaceRetry(p) ==
    /\ pc[p] = "retry"
    /\ IsNone(batch_results[p])
    /\ \E yf_resp \in RaceYfQuotes, fmp_up \in RaceFmpQuotes :
           RaceSingled(p, fetch_single(symbols[p], yf_resp, fmp_up, now, dst, tz))
    /\ UNCHANGED <<cache_file, now, idx, symbols, batch_results>>
    /\ raceFrame

\* Time passes.
RaceTick ==
    /\ \E later \in RaceInstants : later > now /\ now' = later
    /\ UNCHANGED <<cache, cache_file, pc, idx, symbols, results, batch_results,
                   trace>>
    /\ raceFrame

RaceNext ==
    \/ \E p \in Procs : RaceStart(p)
    \/ \E p \in Procs : RaceCheckCache(p)
    \/ \E p \in Procs : RaceFetchBatch(p)
    \/ \E p \in Procs : RaceSaveOpen(p)
    \/ \E p \in Procs : RaceSaveDump(p)
    \/ \E p \in Procs : RaceRetry(p)
    \/ RaceTick

SpecRace == RaceInit /\ [][RaceNext]_vars


\* The invocations that delivered a quote.
Fetched == {e \in trace : IsSome(e.result)}

\* The entry is what set_cache made of a delivered quote of the symbol, as
\* it is in the dict or as json.dump and json.load leave it.
ProducedBy(symbol, entry) ==
    \E e \in Fetched :
        /\ e.symbol = symbol
        /\ entry \in {Entry(e.at, Get(e.result)),
                      json_dump_entry(Entry(e.at, Get(e.result)))}

\* The invocations of the process's current run.
CallsOfRun(p) == {e \in trace : e.proc = p /\ e.run = idx[p]}

\* The timestamp of the entry the file holds for the symbol, if it holds
\* one.
FileStamp(symbol) ==
    IF IsSome(FileEntry(cache_file, symbol))
       /\ IsDictEntry(Get(FileEntry(cache_file, symbol)))
    THEN Some(Get(FileEntry(cache_file, symbol)).timestamp)
    ELSE None

\* A step that leaves the file with an entry of a symbol it already held
\* does not leave it with an older one.
StampNotOlder ==
    \A symbol \in FlowSymbols :
        (IsSome(FileStamp(symbol)) /\ IsSome(FileStamp(symbol)')) =>
            Get(FileStamp(symbol)') >= Get(FileStamp(symbol))

\* C37: with processes sharing the cache file, the timestamp the file holds
\* for a symbol never decreases: no write of a process replaces the entry of
\* a symbol by one with an earlier timestamp.
C37_FileStampNeverDecreases == [][StampNotOlder]_vars

\* C24: with processes that load the file at their start, put entries and
\* rewrite the whole file in any interleaving, every entry of a process's
\* dict, read from the file or put, was made from a quote some process
\* fetched for that symbol; what a lookup returns is the result of such an
\* entry younger than 300 seconds; and a run that finds no entry, the entry
\* lost or never written, asks upstream for its own symbol only, once in
\* fetch_batch and once more only when that delivered nothing.
C24_SharedFileSafe ==
    \A p \in Procs :
        /\ \A k \in DOMAIN cache[p].items : ProducedBy(k, cache[p].items[k])
        /\ pc[p] = "check" =>
               LET cached == get_cached(cache[p], symbols[p], now).val IN
               IsSome(cached) =>
                   LET entry == cache[p].items[symbols[p]] IN
                   /\ now - entry.timestamp < CACHE_DURATION_SECONDS
                   /\ cached = Some(entry.result)
        /\ (pc[p] = "done" /\ Get(results[p]).from = "cache") =>
               /\ CallsOfRun(p) = {}
               /\ \E e \in Fetched :
                      /\ e.symbol = symbols[p]
                      /\ Get(results[p]).at - e.at < CACHE_DURATION_SECONDS
                      /\ Get(results[p]).result
                             \in {e.result, Some(json_dump_result(Get(e.result)))}
        /\ \A e \in CallsOfRun(p) :
               /\ e.symbol = symbols[p]
               /\ e.pass = "single" =>
                      \E b \in CallsOfRun(p) : b.pass = "batch" /\ IsNone(b.result)

\* A process fetched a symbol, saved it, and in its next run, less than 300
\* seconds later, found no entry of the symbol in the file (another process
\* had rewritten it) and fetched the symbol once more.
C24_Witness ==
    \E e1, e3 \in Fetched :
        /\ e1.proc = e3.proc /\ e1.run < e3.run
        /\ e1.symbol = e3.symbol
        /\ e3.at - e1.at < CACHE_DURATION_SECONDS
        /\ pc[e3.proc] = "done" /\ idx[e3.proc] = e3.run
        /\ Get(results[e3.proc]) = [from |-> "fetch", result |-> e3.result]

-----------------------------------------------------------------------------
(* The market state through one day of the exchange *)

\* The wall clock goes through one local day of the symbol's exchange, from
\* 00:00 to 23:59, and step 6 of fetch_real_time_quote_yfinance determines
\* the market state at every minute. out is the state at the minute the
\* clock shows, trace the states the day has been through so far.

\* The epoch second of the exchange's local midnight.
LocalMidnight(symbol, summer, tzmode) ==
    LET zone == IF EndsWith(Upper(symbol), DOT_L) THEN "Europe/London"
                ELSE "America/New_York"
    IN  60 * ((MinutesPerDay - UtcOffset(zone, summer, tzmode)) % MinutesPerDay)

\* now_market.hour * 60 + now_market.minute for the symbol's exchange.
MarketMinute ==
    LocalMinute(IF EndsWith(Upper(in_symbol), DOT_L) THEN "Europe/London"
                ELSE "America/New_York", now, dst, tz)

SessionInit ==
    /\ args = None /\ pc = "idle" /\ symbols = <<>> /\ idx = 0
    /\ cache = <<>> /\ cache_file = <<>> /\ results = <<>>
    /\ symbols_to_fetch = <<>> /\ batch_results = <<>>
    /\ valid_sources = <<>> /\ last_error = None /\ main_historical_data = None
    /\ output = None
    /\ adapter = "market_state"
    /\ YFINANCE_AVAILABLE = TRUE /\ FMP_API_KEY = "key"
    /\ TWELVE_DATA_API_KEY = "key" /\ CONFIG = NoConfig
    /\ in_symbol \in {AAPL, AV_L}
    /\ in_resp = None
    /\ dst \in BOOLEAN
    /\ tz \in {"zoneinfo", "fixed"}
    /\ now = LocalMidnight(in_symbol, dst, tz)
    /\ out = Some(yf_market_state(in_symbol, now, dst, tz))
    /\ trace = <<Get(out)>>

\* A minute later the market state is determined again.
SessionTick ==
    /\ adapter = "market_state"
    /\ MarketMinute < MinutesPerDay - 1
    /\ now' = now + 60
    /\ LET market_state == yf_market_state(in_symbol, now', dst, tz) IN
       /\ out' = Some(market_state)
       /\ trace' = IF market_state # Get(out) THEN Append(trace, market_state)
                   ELSE trace
    /\ UNCHANGED <<configVars, dst, tz, adapter, in_symbol, in_resp, args, pc,
                   symbols, idx, cache, cache_file, results, symbols_to_fetch,
                   batch_results, valid_sources, last_error, main_historical_data,
                   output>>

SessionNext == SessionTick

SpecSession == SessionInit /\ [][SessionNext]_vars

\* The states of a day in their order.
DayCycle == <<"CLOSED", "PRE", "REGULAR", "POST", "CLOSED">>

\* C33: the market state is one of CLOSED, PRE, REGULAR, POST at every minute
\* of the day and depends on the exchange, the hour and the minute only; from
\* 00:00 to 23:59 it changes only along CLOSED, PRE, REGULAR, POST, CLOSED,
\* and at 23:59 it has made each of these four changes once, on the US and
\* on the LSE calendar.
C33_SessionCycle ==
    /\ Get(out) \in {"CLOSED", "PRE", "REGULAR", "POST"}
    /\ Get(out) = IF EndsWith(Upper(in_symbol), DOT_L)
                  THEN lse_market_state(MarketMinute \div 60, MarketMinute % 60)
                  ELSE us_market_state(MarketMinute \div 60, MarketMinute % 60)
    /\ IsPrefix(trace, DayCycle)
    /\ trace[Len(trace)] = Get(out)
    /\ MarketMinute = MinutesPerDay - 1 => trace = DayCycle

\* The last minute of a London day that went through the four sessions.
C33_Witness ==
    /\ in_symbol = AV_L
    /\ MarketMinute = MinutesPerDay - 1
    /\ trace = DayCycle

-----------------------------------------------------------------------------
(* get_ohlc_data.py *)

\* fetch_ohlc_data called with a symbol, a period and an interval, and the
\* script run with a command line; args holds the arguments, in_resp what
\* ticker.history answers, out what is returned or printed.

Periods == {"1d", "1mo"}
Intervals == {"1d", "5m", "1wk"}

\* An upstream history whose second row has no volume.
NaNVolumeAnswer ==
    Some(<<[date |-> 1, Open |-> Price(100), High |-> Price(103),
            Low |-> Price(99), Close |-> Price(102), Volume |-> 1000],
           [date |-> 2, Open |-> Price(102), High |-> Price(104),
            Low |-> Price(101), Close |-> Price(103), Volume |-> NaN]>>)

CommandLines ==
    {Argv(None, None, None)}
    \cup {Argv(Some(t), None, None) : t \in OhlcSymbols}
    \cup {Argv(Some(t), Some(p), None) : t \in OhlcSymbols, p \in Periods}
    \cup {Argv(Some(t), Some(p), Some(i)) :
              t \in OhlcSymbols, p \in Periods, i \in Intervals}

ScriptInit ==
    /\ out = None
    /\ pc = "idle" /\ symbols = <<>> /\ idx = 0
    /\ cache = <<>> /\ cache_file = <<>> /\ results = <<>>
    /\ symbols_to_fetch = <<>> /\ batch_results = <<>>
    /\ valid_sources = <<>> /\ last_error = None /\ main_historical_data = None
    /\ trace = <<>> /\ output = None
    /\ FMP_API_KEY = "key" /\ TWELVE_DATA_API_KEY = "key" /\ CONFIG = NoConfig
    /\ now = 0 /\ dst = FALSE /\ tz = "zoneinfo"
    /\ in_symbol = <<>>
    /\ in_resp \in OhlcAnswers \cup {NaNVolumeAnswer}
    /\ \/ /\ adapter = "script_fetch_ohlc_data"
          /\ YFINANCE_AVAILABLE = TRUE
          /\ args \in {Some(Argv(Some(t), Some(p), Some(i))) :
                          t \in OhlcSymbols, p \in Periods, i \in Intervals}
       \/ /\ adapter = "script_main"
          /\ YFINANCE_AVAILABLE \in BOOLEAN
          /\ args \in {Some(a) : a \in CommandLines}

\* fetch_ohlc_data(symbol, period, interval)
ScriptFetchOhlcData ==
    Apply("script_fetch_ohlc_data",
          Ret(Some(get_ohlc_data_fetch_ohlc_data(Get(Get(args).symbol),
                                                 Get(Get(args).period),
                                                 Get(Get(args).interval), in_resp))))

\* python3 get_ohlc_data.py [SYMBOL [PERIOD [INTERVAL]]]
ScriptMain ==
    Apply("script_main", Ret(Some(get_ohlc_data_main(Get(args), in_resp))))

ScriptNext == ScriptFetchOhlcData \/ ScriptMain

SpecOhlcScript == ScriptInit /\ [][ScriptNext]_vars

\* fetch_ohlc_data returned, or the script printed.
ScriptReturned == Returned("script_fetch_ohlc_data") \/ Returned("script_main")

\* The upstream history has rows and every row converts.
UsableHistory ==
    /\ IsSome(in_resp) /\ Get(in_resp) # <<>>
    /\ \A k \in 1..Len(Get(in_resp)) : ~IsNaN(Get(in_resp)[k].Volume)

\* C40: the object fetch_ohlc_data returns, and the object the script prints,
\* has success true exactly when data is a non-empty list and error is null,
\* and success false exactly when data is empty and error is a message; the
\* failure is that of an empty history or of an exception, a success has one
\* candle per row; symbol, period and interval are the arguments of
\* fetch_ohlc_data.
C40_OhlcResultConsistent ==
    ScriptReturned =>
        /\ Result.success \in BOOLEAN
        /\ Result.success <=> (Result.data # <<>> /\ IsNone(Result.error))
        /\ ~Result.success <=> (Result.data = <<>> /\ IsSome(Result.error))
        /\ Result.success => Len(Result.data) = Len(Get(in_resp))
        /\ adapter = "script_fetch_ohlc_data" =>
               /\ Result.success <=> UsableHistory
               /\ Result.symbol = Get(Get(args).symbol)
               /\ Result.period = Get(Get(args).period)
               /\ Result.interval = Get(Get(args).interval)

\* fetch_ohlc_data failed on the second row of a history after it had made a
\* candle of the first.
C40_Witness ==
    /\ Returned("script_fetch_ohlc_data")
    /\ IsSome(in_resp) /\ Len(Get(in_resp)) = 2
    /\ ~IsNaN(Get(in_resp)[1].Volume) /\ IsNaN(Get(in_resp)[2].Volume)
    /\ ~Result.success /\ Result.data = <<>>

-----------------------------------------------------------------------------
(* The same symbols in another order, or alone *)

\* Two runs of main() from the same cache file, at the same time of day and
\* with the same answer of each provider for each symbol: first for AAPL
\* and AV.L, then for the two in the other order or for one of them alone.
\* in_resp holds what both runs are given, out what the first run reported.
PermFirst == <<AAPL, AV_L>>
PermSeconds == {<<AV_L, AAPL>>, <<AAPL>>, <<AV_L>>}

PermAnswers == [FlowSymbols -> [yf : FlowYfQuotes, fmp : FlowFmpQuotes]]

\* No file, a file with an expired AAPL entry, and a file that cannot be
\* written with an AAPL entry that has not expired.
PermFiles ==
    {AbsentFile,
     JsonFile(DictValue(Put(EmptyDict, AAPL,
                            CachedQuote(AAPL, CACHE_DURATION_SECONDS)))),
     ReadOnlyFile(DictValue(Put(EmptyDict, AAPL,
                                CachedQuote(AAPL, CACHE_DURATION_SECONDS - 1))))}

QuoteRequest(ss) ==
    Some([mode |-> "quote", symbols |-> ss, start_date |-> None, end_date |-> None])

\* What the finished run printed for the symbol: the prices to the cent, or
\* None when the output has no quote of the symbol.
Outcome(symbol) ==
    IF Stdout.kind = "line" /\ Stdout.symbol = symbol
    THEN Some([close |-> Stdout.close, prev_close |-> Stdout.prev_close])
    ELSE IF Stdout.kind = "json"
            /\ \E k \in 1..Len(Stdout.data) : Stdout.data[k].symbol = symbol
    THEN LET k == CHOOSE k \in 1..Len(Stdout.data) : Stdout.data[k].symbol = symbol
         IN  Some([close |-> Format2f(Stdout.data[k].price),
                   prev_close |-> Format2f(Stdout.data[k].previousClose)])
    ELSE None

PermInit ==
    /\ adapter = "first" /\ in_symbol = <<>>
    /\ in_resp \in [answers : PermAnswers, cache_file : PermFiles,
                    second : PermSeconds]
    /\ out = None
    /\ YFINANCE_AVAILABLE = TRUE /\ FMP_API_KEY = "key"
    /\ TWELVE_DATA_API_KEY = "key" /\ CONFIG = NoConfig
    /\ now = StartTime /\ dst = TRUE /\ tz = "zoneinfo"
    /\ pc = "start"
    /\ MainIdle
    /\ args = QuoteRequest(PermFirst)
    /\ cache_file = in_resp.cache_file
    /\ cache = Get(load_cache(cache_file).val)

\* FetchBatchFetch with the providers answering as in_resp says.
PermFetchBatchFetch ==
    /\ pc = "fetch_batch"
    /\ LET symbol == symbols_to_fetch[idx] IN
       /\ IsNone(get_cached(cache, symbol, now).val)
       /\ BatchStoreFetched(symbol,
                            fetch_real_time_quote(symbol, in_resp.answers[symbol].yf,
                                                  in_resp.answers[symbol].fmp,
                                                  now, dst, tz))
    /\ BatchAdvance
    /\ UNCHANGED <<configVars, dst, tz, adapterVars, args, symbols, results,
                   symbols_to_fetch, valid_sources, last_error, main_historical_data,
                   output>>

\* MainRetrySingle with the providers answering as in_resp says.
PermRetrySingle ==
    /\ pc = "main_retry"
    /\ LET symbol == BatchKeys[idx] IN
       /\ IsNone(batch_results[symbol])
       /\ MainStoreSingle(symbol,
                          fetch_single(symbol, in_resp.answers[symbol].yf,
                                       in_resp.answers[symbol].fmp, now, dst, tz))
    /\ UNCHANGED <<configVars, clockVars, adapterVars, args, symbols,
                   symbols_to_fetch, batch_results, valid_sources, last_error,
                   main_historical_data>>

\* The first run is over: its outcomes are kept and the second request
\* starts as the first did.
PermSecondRun ==
    /\ adapter = "first" /\ pc = "done"
    /\ adapter' = "second"
    /\ out' = Some([s \in FlowSymbols |-> Outcome(s)])
    /\ args' = QuoteRequest(in_resp.second)
    /\ cache_file' = in_resp.cache_file
    /\ cache' = Get(load_cache(in_resp.cache_file).val)
    /\ now' = StartTime
    /\ pc' = "start"
    /\ symbols' = <<>> /\ idx' = 0
    /\ results' = EmptyDict /\ symbols_to_fetch' = <<>> /\ batch_results' = EmptyDict
    /\ trace' = <<>> /\ output' = None
    /\ UNCHANGED <<configVars, dst, tz, in_symbol, in_resp, valid_sources,
                   last_error, main_historical_data>>

\* No symbol is twice on these command lines, so fetch_batch finds none in
\* the cache that main() did not find there.
PermNext ==
    \/ QuoteStart
    \/ MainCheckCache
    \/ PermFetchBatchFetch
    \/ MainKeepResult
    \/ PermRetrySingle
    \/ QuoteOutput
    \/ PermSecondRun

SpecPerm == PermInit /\ [][PermNext]_vars

\* C31: with the same cache file and the same answers of the providers for
\* each symbol, what a request reports for a symbol, a quote with the same
\* prices or nothing, is the same whatever the order of the symbols on the
\* command line, and the same as when the symbol is requested alone.
C31_SymbolIndependent ==
    (adapter = "second" /\ pc = "done") =>
        \A n \in 1..Len(symbols) : Outcome(symbols[n]) = Get(out)[symbols[n]]

=============================================================================
